---------------------------- MODULE Spec2Model ----------------------------
(***************************************************************************)
(* A model of the Ulta / Sephora scrapers (src/src/scrape_ulta.py,         *)
(* src/src/scrape_sephora.py).                                             *)
(*                                                                         *)
(*   Spec         the Ulta orchestrator main(): runs, halts and restarts   *)
(*                over the persisted files                                 *)
(*   SpecScroll   scroll_and_collect_product_links                         *)
(*   SpecReviews  fetch_reviews (both variants)                            *)
(*   SpecExtract  scrape_product_page, one field at a time                 *)
(*   SpecSephora  the Sephora orchestrator main()                          *)
(*   SpecNorm     norm_url, character by character                         *)
(*   SpecVisit    get_product_urls_from_brand and the check in main()      *)
(*   SpecFlush    the save after every brand, on one output file           *)
(***************************************************************************)
EXTENDS Integers, Sequences, FiniteSets, TLC

VARIABLES
    \* ---- persisted files (survive a halt) ----
    products_path,            \* data/raw/ulta_products.csv
    reviews_path,             \* data/raw/ulta_reviews.csv
    brands_done_path,         \* data/raw/ulta_scraped_brand_slugs.txt
    other_pids,               \* product ids held by other ulta_products*.csv files
    \* ---- the running process of main() ----
    pc,                       \* position of main()
    brand_urls,               \* result of get_brand_urls
    bi,                       \* index of the for loop over brand_urls
    all_existing_brand_slugs,
    seen_product_ids,
    product_urls,             \* result of get_product_urls_from_brand
    ui,                       \* index of the for loop over product_urls
    brand_products,
    brand_reviews,
    page_denied,              \* is_access_denied(driver.page_source) at this moment
    restarts,                 \* history: session restarts made for the brand at bi
    \* ---- observation of the run (history) ----
    ev,                       \* what the last step did: page loads, log writes
    capped,                   \* the traversal of the current group hit the global cap
    resumed,                  \* slug of the group flushed, but not logged, at the last halt
    rerun,                    \* this run repeats the brand list of a run that finished
    loaded,                   \* history: the number of ids loaded at the start of the run
    got_reviews,              \* history: the products fetch_reviews returned records for
    \* ---- scroll_and_collect_product_links ----
    limit,                    \* argument
    max_scrolls,              \* argument
    sc_pc,                    \* "loop" or "returned"
    sc_product_urls,          \* product_urls
    sc_seen,                  \* seen
    last_count,
    stagnant_rounds,
    sc_round,                 \* iterations of the for loop started so far
    sc_counts,                \* history: unique-link count after each finished round
    sc_reveals,               \* history: scroll actions triggered
    sc_reason,                \* history: why the function returned
    sc_first,                 \* history: the product links shown so far, first showing first
    sc_again,                 \* history: a link shown before was shown again
    \* ---- fetch_reviews ----
    rv_site,                  \* "ulta" (scrape_ulta.py) or "sephora" (scrape_sephora.py)
    rv_has_id,                \* the id argument is truthy
    total_results,            \* the total the review API reports
    page_size,                \* PR_PAGE_SIZE / params['Limit']
    max_reviews,              \* argument (Ulta)
    max_pages,
    rv_page,                  \* page: iterations of the for loop started so far
    all_reviews,              \* source positions of the records collected
    rv_pc,                    \* "loop", "break" or "returned"
    rv_result,                \* the returned list
    rv_reqs,                  \* history: the requests issued
    rv_honest,                \* history: every response so far was a full page
    \* ---- scrape_product_page ----
    ex_site,                  \* "ulta" or "sephora"
    ex_page,                  \* the content of the rendered page
    ex_pc,                    \* "page", "returned" or "raised"
    ex_result,                \* the returned record
    \* ---- main() of scrape_sephora.py ----
    sephora_products_csv,     \* data/raw/sephora_products.csv
    sephora_reviews_csv,      \* data/raw/sephora_reviews.csv
    sp_pc,                    \* position of main()
    sp_brand_urls,            \* brand_urls
    sp_bi,                    \* index of the for loop over brand_urls
    sp_product_urls,          \* product_urls
    sp_ui,                    \* index of the for loop over product_urls
    sp_all_products,          \* all_products
    sp_all_reviews,           \* all_reviews
    sp_seen,                  \* seen_product_ids
    sp_ev,                    \* history: the page loaded and the reviews requested by the last step
    \* ---- norm_url ----
    nu_u,                     \* the argument u
    nu_pc,                    \* "off", "call", "once", "twice"
    nu_once,                  \* norm_url(u)
    nu_twice,                 \* norm_url(norm_url(u))
    \* ---- get_product_urls_from_brand ----
    gv_site,                  \* "ulta" or "sephora"
    gv_pc,                    \* "off", "load", "collect", "refresh", "returned", "checked"
    attempt,                  \* attempt
    gv_page,                  \* the page in the browser: current_url, page_source
    gv_loads,                 \* history: calls of driver.get
    gv_scrolls,               \* history: calls of scroll_and_collect_product_links
    gv_hist,                  \* history: how each attempt ended
    gv_result,                \* the list returned
    gv_status,                \* the return statement taken
    gv_restart,               \* main() started a new session
    \* ---- the save after every brand, on one output file ----
    fl_file,                  \* products_path or reviews_path, on disk
    fl_count,                 \* saves reached so far
    fl_last                   \* history: what the last save found and wrote

mainVars == <<products_path, reviews_path, brands_done_path, other_pids, pc,
              brand_urls, bi, all_existing_brand_slugs, seen_product_ids,
              product_urls, ui, brand_products, brand_reviews, page_denied, restarts,
              ev, capped, resumed, rerun,
                   loaded, got_reviews>>

scrollVars == <<limit, max_scrolls, sc_pc, sc_product_urls, sc_seen, last_count,
                stagnant_rounds, sc_round, sc_counts, sc_reveals, sc_reason,
               sc_first, sc_again>>

reviewVars == <<rv_site, rv_has_id, total_results, page_size, max_reviews,
                max_pages, rv_page, all_reviews, rv_pc, rv_result, rv_reqs, rv_honest>>

extractVars == <<ex_site, ex_page, ex_pc, ex_result>>

sephoraVars == <<sephora_products_csv, sephora_reviews_csv, sp_pc, sp_brand_urls,
                 sp_bi, sp_product_urls, sp_ui, sp_all_products, sp_all_reviews,
                 sp_seen, sp_ev>>

normVars == <<nu_u, nu_pc, nu_once, nu_twice>>

visitVars == <<gv_site, gv_pc, attempt, gv_page, gv_loads, gv_scrolls, gv_hist,
               gv_result, gv_status, gv_restart>>

flushVars == <<fl_file, fl_count, fl_last>>

vars == <<mainVars, scrollVars, reviewVars, extractVars, sephoraVars, normVars,
          visitVars, flushVars>>

\* What the steps of each function leave alone.
notMain ==
    <<scrollVars, reviewVars, extractVars, sephoraVars, normVars, visitVars,
      flushVars>>

notScroll ==
    <<mainVars, reviewVars, extractVars, sephoraVars, normVars, visitVars,
      flushVars>>

notReviews ==
    <<mainVars, scrollVars, extractVars, sephoraVars, normVars, visitVars,
      flushVars>>

notExtract ==
    <<mainVars, scrollVars, reviewVars, sephoraVars, normVars, visitVars,
      flushVars>>

notSephora ==
    <<mainVars, scrollVars, reviewVars, extractVars, normVars, visitVars,
      flushVars>>

notVisit ==
    <<mainVars, scrollVars, reviewVars, extractVars, sephoraVars, normVars,
      flushVars>>

notFlush ==
    <<mainVars, scrollVars, reviewVars, extractVars, sephoraVars, normVars,
      visitVars>>

notNorm ==
    <<mainVars, scrollVars, reviewVars, extractVars, sephoraVars, visitVars,
      flushVars>>

----------------------------------------------------------------------------
(* Generic helpers *)

Range(s) == {s[i] : i \in 1..Len(s)}

Min(a, b) == IF a < b THEN a ELSE b

Prefix(s, k) == SubSeq(s, 1, Min(k, Len(s)))

IsPrefixOf(s, t) == Len(s) <= Len(t) /\ SubSeq(t, 1, Len(s)) = s

----------------------------------------------------------------------------
(* Configuration (scaled) and the simulated site *)

\* Global cap across brands, PRODUCT_LIMIT_TOTAL = 5000 in the source, scaled.
PRODUCT_LIMIT_TOTAL == 6

\* Per-brand link limit, PRODUCTS_PER_BRAND = 50 in the source, scaled.
PRODUCTS_PER_BRAND == 6

\* Number of leading product links the early exit samples: product_urls[:5].
SAMPLE_SIZE == 5

\* Longest brand list get_brand_urls returns in the model.
MaxBrands == 2

\* Most links at the end of a brand page that a visit may fail to render.
MaxMissing == 1

Link(p, n) == [pid |-> p, v |-> n]

\* The product links of each brand page, in page order.  Brand "b" lists a
\* product of brand "a", under two URLs, and one product of its own.
Catalog(slug) ==
    IF slug = "a"
    THEN <<Link(1, 0), Link(2, 0), Link(3, 0), Link(4, 0), Link(5, 0), Link(6, 0)>>
    ELSE <<Link(6, 1), Link(6, 2), Link(7, 0)>>

\* The reviews the review API holds for a product (their pd_id), newest first.
SiteReviews(pid) ==
    IF pid = 1 THEN <<pid, pid>> ELSE IF pid = 7 THEN <<pid>> ELSE <<>>

\* What fetch_reviews can return for a product: the reviews of the site, or
\* the first of them when a request fails on the way.
FetchOutcomes(pid) == {Prefix(SiteReviews(pid), k) : k \in 0..Len(SiteReviews(pid))}

\* Brand links as they appear on the brands page: the same brand may be
\* linked in another letter case or with a trailing slash.
BrandUrl(s, u, t) == [slug |-> s, upper |-> u, slash |-> t]

BrandUrls == {BrandUrl("a", FALSE, FALSE), BrandUrl("a", TRUE, FALSE),
              BrandUrl("b", FALSE, TRUE)}

NoUrl == BrandUrl("", FALSE, FALSE)

\* get_brand_urls: a list of distinct full URLs, at most the limit.
BrandLists ==
    {l \in UNION {[1..n -> BrandUrls] : n \in 0..MaxBrands} :
        \A i, j \in 1..Len(l) : i # j => l[i] # l[j]}

\* Mutant: the slug is not lower-cased.
BrandSlug_KeepCase(brand_url) == [brand_url EXCEPT !.slash = FALSE]

\* brand_url.rstrip("/").split("/")[-1].lower()
BrandSlug(brand_url) == [brand_url EXCEPT !.upper = FALSE, !.slash = FALSE]

\* extract_product_id: the pimprod id inside the URL.
extract_product_id(url) == url.pid

----------------------------------------------------------------------------
(* Persisted files *)

NoFile == [exists |-> FALSE, rows |-> <<>>]

HeaderRow == [kind |-> "header", id |-> 0]

DataRow(id) == [kind |-> "row", id |-> id]

\* Mutant: the file is opened with mode="w".
to_csv_overwrite(file, ids) ==
    [exists |-> TRUE,
     rows   |-> (IF file.exists THEN <<>> ELSE <<HeaderRow>>)
                \o [i \in 1..Len(ids) |-> DataRow(ids[i])]]

\* DataFrame(records).to_csv(path, mode="a", header=not path.exists())
to_csv_append(file, ids) ==
    [exists |-> TRUE,
     rows   |-> file.rows
                \o (IF file.exists THEN <<>> ELSE <<HeaderRow>>)
                \o [i \in 1..Len(ids) |-> DataRow(ids[i])]]

\* pd.read_csv(path)["product_id"]: the data rows' ids, in file order.
RECURSIVE read_ids(_)
read_ids(rows) ==
    IF rows = <<>> THEN <<>>
    ELSE (IF rows[1].kind = "row" THEN <<rows[1].id>> ELSE <<>>)
         \o read_ids(Tail(rows))

PersistedPids == Range(read_ids(products_path.rows))

----------------------------------------------------------------------------
(* main() of scrape_ulta.py *)

\* What a step did: the brand page it loaded (mat), the product page it
\* loaded (render), the product it requested reviews for (req), the brand it
\* logged (log) and why, a session restart, an exception that left main()
\* (raised) with records of the brand not written yet (unsaved).
NoEvent == [mat |-> NoUrl, render |-> 0, req |-> 0, log |-> NoUrl, why |-> "",
            restart |-> FALSE, raised |-> FALSE, unsaved |-> FALSE]

Idle == /\ pc = "idle"
        /\ brand_urls = <<>>
        /\ bi = 1
        /\ all_existing_brand_slugs = {}
        /\ seen_product_ids = {}
        /\ product_urls = <<>>
        /\ ui = 1
        /\ brand_products = <<>>
        /\ brand_reviews = <<>>
        /\ page_denied = FALSE
        /\ restarts = 0
        /\ ev = NoEvent
        /\ capped = FALSE
        /\ rerun = FALSE
        /\ loaded = 0

InitMain ==
    /\ products_path = NoFile
    /\ reviews_path = NoFile
    /\ brands_done_path = <<>>
    /\ other_pids \in {{}, {3}}
    /\ resumed = NoUrl
    /\ got_reviews = {}
    /\ Idle

\* Mutant: the output file of the earlier runs is not read back.
LoadExistingPids_OtherOnly == other_pids

\* The ids main() starts from: every ulta_products*.csv, the output file included.
LoadExistingPids == other_pids \cup Range(read_ids(products_path.rows))

\* The slugs main() starts from: the lines of the completed-brands log.
LoadBrandSlugs == Range(brands_done_path)

\* Lines 509-552: a process starts, rebuilds its state and collects the brands.
StartRun ==
    /\ pc \in {"idle", "done"}
    /\ \E urls \in BrandLists :
          /\ brand_urls' = urls
          /\ rerun' = (pc = "done" /\ urls = brand_urls)
    /\ seen_product_ids' = LoadExistingPids
    /\ loaded' = Cardinality(LoadExistingPids)
    /\ UNCHANGED got_reviews
    /\ all_existing_brand_slugs' = LoadBrandSlugs
    /\ bi' = 1
    /\ pc' = "brand"
    /\ product_urls' = <<>>
    /\ ui' = 1
    /\ brand_products' = <<>>
    /\ brand_reviews' = <<>>
    /\ page_denied' = FALSE
    /\ restarts' = 0
    /\ ev' = NoEvent
    /\ capped' = FALSE
    /\ UNCHANGED <<products_path, reviews_path, brands_done_path, other_pids, resumed>>
    /\ UNCHANGED notMain

\* Mutant: the global cap is never found reached.
AtCap_Never(seen) == FALSE

\* Lines 562 and 605: len(seen_product_ids) >= PRODUCT_LIMIT_TOTAL
AtCap(seen) == Cardinality(seen) >= PRODUCT_LIMIT_TOTAL

\* Lines 554-564 and 663: the head of the loop over the brands.
NextBrand ==
    /\ pc = "brand"
    /\ ev' = NoEvent
    /\ capped' = FALSE
    /\ restarts' = 0
    /\ IF bi > Len(brand_urls)
       THEN pc' = "done" /\ bi' = bi
       ELSE IF BrandSlug(brand_urls[bi]) \in all_existing_brand_slugs
       THEN pc' = "brand" /\ bi' = bi + 1
       ELSE IF AtCap(seen_product_ids)
       THEN pc' = "done" /\ bi' = bi
       ELSE pc' = "materialize" /\ bi' = bi
    /\ UNCHANGED <<products_path, reviews_path, brands_done_path, other_pids,
                   brand_urls, all_existing_brand_slugs, seen_product_ids,
                   product_urls, ui, brand_products, brand_reviews, page_denied,
                   resumed, rerun,
                   loaded, got_reviews>>
    /\ UNCHANGED notMain

\* What one call of get_product_urls_from_brand can return for a brand: the
\* links rendered (the page's links, at most the limit, the last ones possibly
\* not rendered yet), or nothing, the page then showing the access-denied
\* text or not.
BrandVisits(brand_url) ==
    LET links == Prefix(Catalog(BrandSlug(brand_url).slug), PRODUCTS_PER_BRAND) IN
    {[urls |-> Prefix(links, k), denied |-> d] :
        k \in {0} \cup {n \in 1..Len(links) : n >= Len(links) - MaxMissing},
        d \in BOOLEAN}

\* Line 571: the brand page is loaded and its links collected.
Materialize ==
    /\ pc = "materialize"
    /\ \E visit \in BrandVisits(brand_urls[bi]) :
          /\ visit.urls # <<>> => ~visit.denied
          /\ product_urls' = visit.urls
          /\ page_denied' = visit.denied
          /\ restarts' = restarts
          /\ pc' = IF visit.urls = <<>> THEN "empty" ELSE "sample"
    /\ ev' = [NoEvent EXCEPT !.mat = brand_urls[bi]]
    /\ UNCHANGED <<products_path, reviews_path, brands_done_path, other_pids,
                   brand_urls, bi, all_existing_brand_slugs, seen_product_ids,
                   ui, brand_products, brand_reviews, capped, resumed, rerun,
                   loaded, got_reviews>>
    /\ UNCHANGED notMain

\* Mutant: the recovery is tried again after a retry that came back empty.
CanRecover_Again(p, denied) == p \in {"empty", "skip"} /\ denied

\* Lines 573-574: the first result is empty and the page in the browser
\* shows the access-denied text.
CanRecover(p, denied) == p = "empty" /\ denied

\* Lines 573-579: no links and an access-denied page: new session, one retry.
Recover ==
    /\ CanRecover(pc, page_denied)
    /\ \E visit \in BrandVisits(brand_urls[bi]) :
          /\ visit.urls # <<>> => ~visit.denied
          /\ product_urls' = visit.urls
          /\ page_denied' = visit.denied
          /\ restarts' = restarts + 1
          /\ pc' = IF visit.urls = <<>> THEN "skip" ELSE "sample"
    /\ ev' = [NoEvent EXCEPT !.mat = brand_urls[bi], !.restart = TRUE]
    /\ UNCHANGED <<products_path, reviews_path, brands_done_path, other_pids,
                   brand_urls, bi, all_existing_brand_slugs, seen_product_ids,
                   ui, brand_products, brand_reviews, capped, resumed, rerun,
                   loaded, got_reviews>>
    /\ UNCHANGED notMain

\* Mutant: the brand is remembered in memory only, the log is not written.
MarkBrandDone_MemoryOnly(why) ==
    /\ all_existing_brand_slugs' =
          all_existing_brand_slugs \cup {BrandSlug(brand_urls[bi])}
    /\ brands_done_path' = brands_done_path
    /\ ev' = [NoEvent EXCEPT !.log = brand_urls[bi], !.why = why]
    /\ bi' = bi + 1
    /\ pc' = "brand"

\* all_existing_brand_slugs.add(brand_slug); f.write(brand_slug + "\n")
MarkBrandDone(why) ==
    /\ all_existing_brand_slugs' =
          all_existing_brand_slugs \cup {BrandSlug(brand_urls[bi])}
    /\ brands_done_path' = Append(brands_done_path, BrandSlug(brand_urls[bi]))
    /\ ev' = [NoEvent EXCEPT !.log = brand_urls[bi], !.why = why]
    /\ bi' = bi + 1
    /\ pc' = "brand"

\* Lines 581-586: still no links: the brand is logged and skipped.
SkipEmptyBrand ==
    /\ \/ pc = "empty" /\ ~page_denied
       \/ pc = "skip"
    /\ MarkBrandDone("empty")
    /\ UNCHANGED <<products_path, reviews_path, other_pids, brand_urls,
                   seen_product_ids, product_urls, ui, brand_products,
                   brand_reviews, page_denied, restarts, capped, resumed, rerun,
                   loaded, got_reviews>>
    /\ UNCHANGED notMain

\* Lines 589-593: the ids of the first links.
RECURSIVE PidsOf(_)
PidsOf(urls) ==
    IF urls = <<>> THEN <<>>
    ELSE <<extract_product_id(urls[1])>> \o PidsOf(Tail(urls))

first_pids(urls) == PidsOf(Prefix(urls, SAMPLE_SIZE))

\* Mutant: any() instead of all().
AnySampleSeen(urls, seen) ==
    /\ first_pids(urls) # <<>>
    /\ \E i \in 1..Len(first_pids(urls)) : first_pids(urls)[i] \in seen

\* Line 594: first_pids and all(pid in seen_product_ids for pid in first_pids)
AllSampleSeen(urls, seen) ==
    /\ first_pids(urls) # <<>>
    /\ \A i \in 1..Len(first_pids(urls)) : first_pids(urls)[i] \in seen

\* Lines 588-602: the early exit, or the start of the traversal.
SampleBrand ==
    /\ pc = "sample"
    /\ IF AllSampleSeen(product_urls, seen_product_ids)
       THEN /\ MarkBrandDone("sample")
            /\ UNCHANGED <<ui, brand_products, brand_reviews>>
       ELSE /\ brand_products' = <<>>
            /\ brand_reviews' = <<>>
            /\ ui' = 1
            /\ pc' = "product"
            /\ ev' = NoEvent
            /\ UNCHANGED <<brands_done_path, all_existing_brand_slugs, bi>>
    /\ UNCHANGED <<products_path, reviews_path, other_pids, brand_urls,
                   seen_product_ids, product_urls, page_denied, restarts, capped,
                   resumed, rerun,
                   loaded, got_reviews>>
    /\ UNCHANGED notMain

\* Mutant: the check of line 609 is dropped.
AlreadyHave_Never(pid, seen) == FALSE

\* Line 609: pid and pid in seen_product_ids
AlreadyHave(pid, seen) == pid \in seen

\* Lines 286 and 404-412: the record of a product page; its product_id is the
\* id inside the URL.
scrape_product_page(url) == [product_id |-> extract_product_id(url), product_url |-> url]

\* Lines 604-636: one iteration of the loop over the product links.
Product ==
    /\ pc = "product"
    /\ IF ui > Len(product_urls)
       THEN /\ pc' = "flush_products"
            /\ ev' = NoEvent
            /\ UNCHANGED <<ui, seen_product_ids, brand_products, brand_reviews, capped,
                           got_reviews>>
       ELSE IF AtCap(seen_product_ids)
       THEN /\ pc' = "flush_products"
            /\ capped' = TRUE
            /\ ev' = NoEvent
            /\ UNCHANGED <<ui, seen_product_ids, brand_products, brand_reviews,
                           got_reviews>>
       ELSE IF AlreadyHave(extract_product_id(product_urls[ui]), seen_product_ids)
       THEN /\ ui' = ui + 1
            /\ pc' = "product"
            /\ ev' = NoEvent
            /\ UNCHANGED <<seen_product_ids, brand_products, brand_reviews, capped,
                           got_reviews>>
       ELSE LET pid == scrape_product_page(product_urls[ui]).product_id IN
            /\ ui' = ui + 1
            /\ pc' = "product"
            /\ UNCHANGED capped
            /\ IF pid \in seen_product_ids
               THEN /\ ev' = [NoEvent EXCEPT !.render = pid]
                    /\ UNCHANGED <<seen_product_ids, brand_products, brand_reviews,
                                   got_reviews>>
               ELSE \E revs \in FetchOutcomes(pid) :
                    /\ got_reviews' = IF revs # <<>> THEN got_reviews \cup {pid}
                                      ELSE got_reviews
                    /\ seen_product_ids' = seen_product_ids \cup {pid}
                    /\ brand_products' = Append(brand_products, pid)
                    /\ brand_reviews' = brand_reviews \o revs
                    /\ ev' = [NoEvent EXCEPT !.render = pid, !.req = pid]
    /\ UNCHANGED <<products_path, reviews_path, brands_done_path, other_pids,
                   brand_urls, bi, all_existing_brand_slugs, product_urls,
                   page_denied, restarts, resumed, rerun,
                   loaded>>
    /\ UNCHANGED notMain

\* Mutant: the save is passed over.
HasRecords_Never(records) == FALSE

\* Lines 639 and 648: if brand_products: / if brand_reviews:
HasRecords(records) == records # <<>>

\* Lines 639-646: the brand's product rows are appended.
FlushProducts ==
    /\ pc = "flush_products"
    /\ products_path' = IF HasRecords(brand_products)
                        THEN to_csv_append(products_path, brand_products)
                        ELSE products_path
    /\ pc' = "flush_reviews"
    /\ ev' = NoEvent
    /\ UNCHANGED <<reviews_path, brands_done_path, other_pids, brand_urls, bi,
                   all_existing_brand_slugs, seen_product_ids, product_urls, ui,
                   brand_products, brand_reviews, page_denied, restarts, capped, resumed, rerun,
                   loaded, got_reviews>>
    /\ UNCHANGED notMain

\* Lines 648-654: the brand's review rows are appended.
FlushReviews ==
    /\ pc = "flush_reviews"
    /\ reviews_path' = IF HasRecords(brand_reviews)
                       THEN to_csv_append(reviews_path, brand_reviews)
                       ELSE reviews_path
    /\ pc' = "mark_done"
    /\ ev' = NoEvent
    /\ UNCHANGED <<products_path, brands_done_path, other_pids, brand_urls, bi,
                   all_existing_brand_slugs, seen_product_ids, product_urls, ui,
                   brand_products, brand_reviews, page_denied, restarts, capped, resumed, rerun,
                   loaded, got_reviews>>
    /\ UNCHANGED notMain

\* Lines 656-659: the brand is logged as done.
MarkDone ==
    /\ pc = "mark_done"
    /\ MarkBrandDone("done")
    /\ UNCHANGED <<products_path, reviews_path, other_pids, brand_urls,
                   seen_product_ids, product_urls, ui, brand_products,
                   brand_reviews, page_denied, restarts, capped, resumed, rerun,
                   loaded, got_reviews>>
    /\ UNCHANGED notMain

\* Lines 571, 579 and 615: driver.get, or another call on the driver, raises
\* inside get_product_urls_from_brand or scrape_product_page.  Neither
\* function nor main() catches it: the exception leaves main(), the process
\* ends and what it held in memory is gone.
Raise ==
    /\ \/ pc = "materialize"
       \/ pc = "empty" /\ page_denied
       \/ /\ pc = "product"
          /\ ui <= Len(product_urls)
          /\ ~AtCap(seen_product_ids)
          /\ ~AlreadyHave(extract_product_id(product_urls[ui]), seen_product_ids)
    /\ ev' = [NoEvent EXCEPT !.raised = TRUE, !.unsaved = (brand_products # <<>>),
                             !.why = pc]
    /\ resumed' = NoUrl
    /\ pc' = "idle"
    /\ brand_urls' = <<>>
    /\ bi' = 1
    /\ all_existing_brand_slugs' = {}
    /\ seen_product_ids' = {}
    /\ product_urls' = <<>>
    /\ ui' = 1
    /\ brand_products' = <<>>
    /\ brand_reviews' = <<>>
    /\ page_denied' = FALSE
    /\ restarts' = 0
    /\ capped' = FALSE
    /\ rerun' = FALSE
    /\ loaded' = 0
    /\ UNCHANGED <<products_path, reviews_path, brands_done_path, other_pids,
                   got_reviews>>
    /\ UNCHANGED notMain

\* The process is stopped between two steps: everything in memory is lost,
\* the files stay as they are.
Halt ==
    /\ pc \notin {"idle", "done"}
    /\ resumed' = IF pc \in {"flush_reviews", "mark_done"} /\ brand_products # <<>>
                  THEN BrandSlug(brand_urls[bi])
                  ELSE NoUrl
    /\ pc' = "idle"
    /\ brand_urls' = <<>>
    /\ bi' = 1
    /\ all_existing_brand_slugs' = {}
    /\ seen_product_ids' = {}
    /\ product_urls' = <<>>
    /\ ui' = 1
    /\ brand_products' = <<>>
    /\ brand_reviews' = <<>>
    /\ page_denied' = FALSE
    /\ restarts' = 0
    /\ ev' = NoEvent
    /\ capped' = FALSE
    /\ rerun' = FALSE
    /\ loaded' = 0
    /\ UNCHANGED <<products_path, reviews_path, brands_done_path, other_pids,
                   got_reviews>>
    /\ UNCHANGED notMain

NextMain ==
    \/ StartRun
    \/ NextBrand
    \/ Materialize
    \/ Recover
    \/ SkipEmptyBrand
    \/ SampleBrand
    \/ Product
    \/ FlushProducts
    \/ FlushReviews
    \/ MarkDone
    \/ Raise
    \/ Halt

----------------------------------------------------------------------------
(* scroll_and_collect_product_links *)

\* Scaled MAX_BRAND_SCROLLS (40 in scrape_ulta.py, 20 in scrape_sephora.py):
\* the largest max_scrolls tried.
MaxScrolls == 7

\* Largest limit tried.
MaxLimit == 4

\* Most anchors a rendered page shows in one round.
MaxPageLinks == 2

\* An anchor's href: a product path (prod = 0: a path without a pimprod id),
\* relative or absolute, with or without a query string.
Href(r, p, q) == [rel |-> r, prod |-> p, query |-> q]

NoHref == Href(FALSE, 0 - 1, FALSE)

Hrefs == {Href(TRUE, 1, FALSE), Href(FALSE, 1, TRUE), Href(TRUE, 2, FALSE),
          Href(TRUE, 3, TRUE), Href(TRUE, 0, FALSE), NoHref}

\* What soup.select("a[href*='/p/']") can yield in one round.
Pages == UNION {[1..n -> Hrefs] : n \in 0..MaxPageLinks}

\* norm_url: the query string is cut off, a relative path gets BASE in front.
norm_url(u) == IF u = NoHref THEN u ELSE [u EXCEPT !.query = FALSE, !.rel = FALSE]

\* re.search(r"pimprod\d+", full)
HasPimprod(full) == full.prod > 0

\* Mutant: no link counts as seen.
Seen_Never(full, seen) == FALSE

\* Line 202: if full not in seen
Seen(full, seen) == full \in seen

\* Lines 193-207: the anchors of one page, in order; stops at the limit.
RECURSIVE Collect(_, _, _, _)
Collect(page, urls, seen, lim) ==
    IF page = <<>> THEN [urls |-> urls, seen |-> seen, hit |-> FALSE]
    ELSE LET href == Head(page)
             full == norm_url(href)
         IN  IF href = NoHref \/ ~HasPimprod(full) \/ Seen(full, seen)
             THEN Collect(Tail(page), urls, seen, lim)
             ELSE IF Len(urls) + 1 >= lim
             THEN [urls |-> Append(urls, full), seen |-> seen \cup {full}, hit |-> TRUE]
             ELSE Collect(Tail(page), Append(urls, full), seen \cup {full}, lim)

\* The product links a page shows (lines 193-201), in the order of the
\* anchors, added to the ones shown before: first showings only.
RECURSIVE Discover(_, _)
Discover(page, first) ==
    IF page = <<>> THEN first
    ELSE LET full == norm_url(Head(page)) IN
         IF Head(page) = NoHref \/ ~HasPimprod(full) \/ full \in Range(first)
         THEN Discover(Tail(page), first)
         ELSE Discover(Tail(page), Append(first, full))

\* A page shows a product link that an earlier round has shown.
ShownAgain(page, first) ==
    \E i \in 1..Len(page) :
        page[i] # NoHref /\ norm_url(page[i]) \in Range(first)

\* Mutant: the loop has no bound on its rounds.
RoundsLeft_Always(round, max) == TRUE

\* Line 189: for i in range(max_scrolls)
RoundsLeft(round, max) == round < max

\* Mutant: the loop gives up after two stagnant rounds.
StagnationBreak_Two(rounds) == rounds >= 2

\* Line 220: if stagnant_rounds >= 3: break
StagnationBreak(rounds) == rounds >= 3

ScrollIdle ==
    /\ limit = 0
    /\ max_scrolls = 0
    /\ sc_pc = "off"
    /\ sc_product_urls = <<>>
    /\ sc_seen = {}
    /\ last_count = 0
    /\ stagnant_rounds = 0
    /\ sc_round = 0
    /\ sc_counts = <<>>
    /\ sc_reveals = 0
    /\ sc_reason = ""
    /\ sc_first = <<>>
    /\ sc_again = FALSE

\* Lines 178-187: a call with some limit and max_scrolls.
InitScroll ==
    /\ limit \in 0..MaxLimit
    /\ max_scrolls \in 0..MaxScrolls
    /\ sc_pc = "loop"
    /\ sc_product_urls = <<>>
    /\ sc_seen = {}
    /\ last_count = 0
    /\ stagnant_rounds = 0
    /\ sc_round = 0
    /\ sc_counts = <<>>
    /\ sc_reveals = 0
    /\ sc_reason = ""
    /\ sc_first = <<>>
    /\ sc_again = FALSE

\* Lines 189-221: one iteration of the loop, on whatever the page shows.
ScrollRound ==
    /\ sc_pc = "loop"
    /\ RoundsLeft(sc_round, max_scrolls)
    /\ sc_round' = sc_round + 1
    /\ \E page \in Pages :
         LET got == Collect(page, sc_product_urls, sc_seen, limit)
             n == Len(got.urls)
             stagnant == IF n = last_count THEN stagnant_rounds + 1 ELSE 0
         IN  /\ sc_product_urls' = got.urls
             /\ sc_seen' = got.seen
             /\ sc_first' = Discover(page, sc_first)
             /\ sc_again' = (sc_again \/ ShownAgain(page, sc_first))
             /\ IF got.hit
                THEN /\ sc_pc' = "returned"
                     /\ sc_reason' = "limit"
                     /\ UNCHANGED <<last_count, stagnant_rounds, sc_counts, sc_reveals>>
                ELSE /\ sc_reveals' = sc_reveals + 1
                     /\ stagnant_rounds' = stagnant
                     /\ last_count' = n
                     /\ sc_counts' = Append(sc_counts, n)
                     /\ IF StagnationBreak(stagnant)
                        THEN sc_pc' = "returned" /\ sc_reason' = "stagnant"
                        ELSE sc_pc' = "loop" /\ sc_reason' = ""
    /\ UNCHANGED <<limit, max_scrolls>>
    /\ UNCHANGED notScroll

\* Lines 189 and 223: range(max_scrolls) is used up.
ScrollExhausted ==
    /\ sc_pc = "loop"
    /\ ~RoundsLeft(sc_round, max_scrolls)
    /\ sc_pc' = "returned"
    /\ sc_reason' = "max_scrolls"
    /\ UNCHANGED <<limit, max_scrolls, sc_product_urls, sc_seen, last_count,
                   stagnant_rounds, sc_round, sc_counts, sc_reveals, sc_first,
                   sc_again>>
    /\ UNCHANGED notScroll

NextScroll == ScrollRound \/ ScrollExhausted

----------------------------------------------------------------------------
(* fetch_reviews (scrape_ulta.py 419-502, scrape_sephora.py 530-589) *)

\* Largest total the review API reports in the exhaustive box of inputs.
MaxTotal == 4

\* Largest page size in the box (PR_PAGE_SIZE is 25, Sephora's Limit is 100).
MaxPageSize == 3

\* Largest max_reviews (Ulta) or max_pages (Sephora) in the box.
MaxCap == 4

\* The calls tried: every combination of the box, and three calls of full
\* size (a total of 45 served in pages of 20).
ReviewInputs ==
    [site : {"ulta", "sephora"}, T : 0..MaxTotal, S : 1..MaxPageSize, cap : 0..MaxCap]
    \cup {[site |-> "ulta", T |-> 45, S |-> 20, cap |-> 45],
          [site |-> "ulta", T |-> 45, S |-> 20, cap |-> 30],
          [site |-> "sephora", T |-> 45, S |-> 20, cap |-> 3]}

\* Line 434: (max_reviews + PR_PAGE_SIZE - 1) // PR_PAGE_SIZE
Ceil(a, b) == (a + b - 1) \div b

\* The records at source positions offset+1 .. offset+n.
Records(offset, n) == [i \in 1..n |-> offset + i]

\* What a server holding total records has for the window
\* [offset, offset + size).
Available(offset, size, total) ==
    IF total > offset THEN Min(size, total - offset) ELSE 0

\* What a request can come back with: an error (a status other than 200, or
\* requests.get raising), a body that r.json() or the lookup of the result
\* list fails on (json is FALSE), or a page of at most the records the window
\* holds, whose entry number bad (when not 0) is not of the shape the loop
\* over the entries reads.
Responses(offset, size, total) ==
    {[ok |-> FALSE, json |-> TRUE, n |-> 0, bad |-> 0],
     [ok |-> TRUE, json |-> FALSE, n |-> 0, bad |-> 0]}
    \cup {[ok |-> TRUE, json |-> TRUE, n |-> k, bad |-> 0] :
              k \in 0..Available(offset, size, total)}
    \cup UNION {{[ok |-> TRUE, json |-> TRUE, n |-> k, bad |-> j] : j \in 1..k} :
                   k \in 1..Available(offset, size, total)}

\* Mutant: a status other than 200 does not end the loop.
Breaks_IgnoreStatus(r) == ~r.json \/ (r.ok /\ r.n = 0)

\* Ulta lines 446-461 and 492-494, Sephora lines 555-562 and 582-584: a
\* status other than 200, an exception of the request or of r.json(), and an
\* empty page all break out of the loop before anything is appended.
Breaks(r) == ~r.ok \/ ~r.json \/ r.n = 0

\* Ulta lines 465-485, Sephora lines 564-575: the entries are appended one by
\* one inside the try, so the entries before a malformed one are in
\* all_reviews when the exception is caught.
Appended(r) == IF r.bad = 0 THEN r.n ELSE r.bad - 1

\* Ulta line 437: offset = page * PR_PAGE_SIZE.
\* Sephora line 553: params['Offset'] = len(all_reviews).
RequestOffset(site, pg, size, have) ==
    IF site = "ulta" THEN pg * size ELSE have

\* Mutant: the server-reported total is not looked at.
ReachedEnd_CapOnly(site, have, total, cap) == site = "ulta" /\ have >= cap

\* Ulta line 487: len(all_reviews) >= total_results or len(all_reviews) >= max_reviews.
\* Sephora line 577: len(all_reviews) >= data.get('TotalResults', 0).
ReachedEnd(site, have, total, cap) ==
    have >= total \/ (site = "ulta" /\ have >= cap)

\* Mutant: the list is returned as collected.
Trim_None(site, reviews, cap) == reviews

\* Ulta line 497: all_reviews[:max_reviews]; the Sephora variant returns the
\* list as collected.
Trim(site, reviews, cap) ==
    IF site = "ulta" THEN Prefix(reviews, cap) ELSE reviews

ReviewsIdle ==
    /\ rv_site = ""
    /\ rv_has_id = FALSE
    /\ total_results = 0
    /\ page_size = 0
    /\ max_reviews = 0
    /\ max_pages = 0
    /\ rv_page = 0
    /\ all_reviews = <<>>
    /\ rv_pc = "off"
    /\ rv_result = <<>>
    /\ rv_reqs = <<>>
    /\ rv_honest = TRUE

\* A call of fetch_reviews, up to the for loop.
InitReviews ==
    /\ \E in \in ReviewInputs :
         /\ rv_site = in.site
         /\ total_results = in.T
         /\ page_size = in.S
         /\ max_reviews = (IF in.site = "ulta" THEN in.cap ELSE 0)
         /\ max_pages = (IF in.site = "ulta" THEN Ceil(in.cap, in.S) ELSE in.cap)
    /\ rv_has_id \in BOOLEAN
    /\ rv_page = 0
    /\ all_reviews = <<>>
    /\ rv_pc = "loop"
    /\ rv_result = <<>>
    /\ rv_reqs = <<>>
    /\ rv_honest = TRUE

\* One iteration of the for loop: a request and what is done with the response.
ReviewRequest ==
    /\ rv_pc = "loop"
    /\ rv_has_id
    /\ rv_page < max_pages
    /\ rv_page' = rv_page + 1
    /\ LET offset == RequestOffset(rv_site, rv_page, page_size, Len(all_reviews))
       IN  \E r \in Responses(offset, page_size, total_results) :
             LET got == all_reviews \o Records(offset, Appended(r))
             IN  /\ rv_reqs' = Append(rv_reqs, [offset |-> offset,
                                                have |-> Len(all_reviews),
                                                ok |-> r.ok, json |-> r.json,
                                                n |-> r.n, bad |-> r.bad])
                 /\ rv_honest' = (rv_honest /\ r.ok /\ r.json /\ r.bad = 0
                                  /\ r.n = Available(offset, page_size, total_results))
                 /\ IF Breaks(r)
                    THEN /\ rv_pc' = "break"
                         /\ UNCHANGED all_reviews
                    ELSE /\ all_reviews' = got
                         /\ rv_pc' = IF r.bad # 0
                                        \/ ReachedEnd(rv_site, Len(got), total_results,
                                                      max_reviews)
                                     THEN "break" ELSE "loop"
    /\ UNCHANGED <<rv_site, rv_has_id, total_results, page_size, max_reviews,
                   max_pages, rv_result>>
    /\ UNCHANGED notReviews

\* The early return for a missing id, a break, or range(max_pages) used up:
\* the list is trimmed and returned.
ReviewsReturn ==
    /\ \/ rv_pc = "break"
       \/ rv_pc = "loop" /\ (~rv_has_id \/ rv_page >= max_pages)
    /\ rv_pc' = "returned"
    /\ rv_result' = IF rv_has_id THEN Trim(rv_site, all_reviews, max_reviews) ELSE <<>>
    /\ UNCHANGED <<rv_site, rv_has_id, total_results, page_size, max_reviews,
                   max_pages, rv_page, all_reviews, rv_reqs, rv_honest>>
    /\ UNCHANGED notReviews

NextReviews == ReviewRequest \/ ReviewsReturn

----------------------------------------------------------------------------
(* scrape_product_page: the fields brand, product_name, price and rating    *)
(* (scrape_ulta.py 288-389 and 404-412, scrape_sephora.py 355-507 and       *)
(* 515-528).  A text is a sequence of characters.                           *)

\* Most JSON-LD script blocks on a page.
MaxBlocks == 2

\* Python's None, among texts.
None == <<"None">>

\* not v, for a text or None
Falsy(v) == v = None \/ v = <<>>

\* a or b
Or(a, b) == IF Falsy(a) THEN b ELSE a

\* Mutant: a later strategy overwrites what an earlier one found.
Unset_Always(v) == TRUE

\* The guard "if not name:" (and the same for brand, price and rating).
Unset(v) == Falsy(v)

\* f"${p}"
Dollar(p) == <<"$">> \o p

\* c in s
Contains(s, c) == \E i \in 1..Len(s) : s[i] = c

\* s.startswith(t)
StartsWith(s, t) == IsPrefixOf(t, s)

\* c.lower(), on the letters the texts of the model are made of
LowerChar(c) ==
    CASE c = "A" -> "a" [] c = "B" -> "b" [] c = "J" -> "j" [] c = "L" -> "l"
      [] c = "M" -> "m" [] c = "S" -> "s" [] c = "T" -> "t" [] c = "U" -> "u"
      [] OTHER -> c

\* s.lower()
Lower(s) == [i \in 1..Len(s) |-> LowerChar(s[i])]

\* s.split(c)[0]
RECURSIVE SplitFirst(_, _)
SplitFirst(s, c) ==
    IF s = <<>> \/ Head(s) = c THEN <<>>
    ELSE <<Head(s)>> \o SplitFirst(Tail(s), c)

RECURSIVE LStrip(_, _)
LStrip(s, cs) == IF s # <<>> /\ Head(s) \in cs THEN LStrip(Tail(s), cs) ELSE s

RECURSIVE RStrip(_, _)
RStrip(s, cs) ==
    IF s # <<>> /\ s[Len(s)] \in cs THEN RStrip(SubSeq(s, 1, Len(s) - 1), cs) ELSE s

\* s.strip(cs); s.strip() is Strip(s, Whitespace)
Strip(s, cs) == RStrip(LStrip(s, cs), cs)

Whitespace == {" "}

\* The characters of the argument of name.strip: blank, hyphen, en dash, em dash
DashChars == {" ", "-", "en dash", "em dash"}

\* [\d,.]
AmountChars == {"0", "1", "2", "3", "4", "5", "6", "7", "8", "9", ",", "."}

RECURSIVE AmountRun(_)
AmountRun(s) ==
    IF s # <<>> /\ Head(s) \in AmountChars THEN <<Head(s)>> \o AmountRun(Tail(s))
    ELSE <<>>

\* re.search(r"\$[\d,.]+", s): the match, or None
RECURSIVE DollarAmount(_)
DollarAmount(s) ==
    IF s = <<>> THEN None
    ELSE IF Head(s) = "$" /\ AmountRun(Tail(s)) # <<>>
    THEN <<"$">> \o AmountRun(Tail(s))
    ELSE DollarAmount(Tail(s))

Fields == {"brand", "name", "price", "rating"}

FieldChar(f) ==
    CASE f = "brand" -> "b" [] f = "name" -> "n" [] f = "price" -> "p" [] OTHER -> "r"

\* The value a page holds for field f in its i-th JSON-LD block ("A"), behind
\* a CSS selector ("B"), in a meta tag ("M"), in the page's JS context ("J").
Value(src, f, i) == <<src, FieldChar(f), i>>

Digit(i) == CASE i = 1 -> "1" [] i = 2 -> "2" [] i = 3 -> "3" [] OTHER -> "4"

\* ---- JSON-LD blocks ----
\* kind: "malformed" (json.loads raises) or "object"; type: the "@type";
\* offers: "dict", "list" (of one dict), "empty" (an empty list) or "missing".
Block(k, t, n, b, o, p, r, c) ==
    [kind |-> k, type |-> t, name |-> n, brand |-> b, offers |-> o,
     price |-> p, rating |-> r, category |-> c]

\* A JSON value that is not a string: a list.
ListValue(d) == <<"list", "b", d>>

\* isinstance(v, str), for a truthy value
IsText(v) == v # <<>> /\ v[1] \notin {"list", "None"}

BlockKinds == {"Malformed", "OtherFull", "ProductFull", "ProductEmpty",
               "ProductNameBrand", "ProductPriceRating", "ProductEmptyOffers",
               "ProductBrandList"}

\* The i-th block of a page, of each kind.
BlockOf(kind, i) ==
    LET d == Digit(i)
        n == Value("A", "name", d)
        b == Value("A", "brand", d)
        p == Value("A", "price", d)
        r == Value("A", "rating", d)
        c == <<"A", "c", d>>
    IN  CASE kind = "Malformed" ->
                 Block("malformed", "", None, None, "missing", None, None, None)
          [] kind = "OtherFull" -> Block("object", "Other", n, b, "dict", p, r, c)
          [] kind = "ProductFull" -> Block("object", "Product", n, b, "dict", p, r, c)
          [] kind = "ProductBrandList" ->
                 Block("object", "Product", n, ListValue(d), "dict", p, r, None)
          [] kind = "ProductEmpty" ->
                 Block("object", "Product", None, <<>>, "missing", None, None, None)
          [] kind = "ProductNameBrand" ->
                 Block("object", "Product", n, b, "missing", None, None, None)
          [] kind = "ProductPriceRating" ->
                 Block("object", "Product", None, None, "list", p, r, None)
          [] OTHER -> Block("object", "Product", n, b, "empty", None, r, c)

LdPages ==
    UNION {{[i \in 1..n |-> BlockOf(ks[i], i)] : ks \in [1..n -> BlockKinds]}
           : n \in 0..MaxBlocks}

\* ---- what the selectors of each field find, in selector order ----
CssOf(kind) ==
    CASE kind = "none" ->
           [name |-> <<None, None>>, brand |-> <<None, None>>,
            price |-> <<None, None>>, rating |-> <<None, None>>]
      [] kind = "all" ->
           [name |-> <<None, Value("B", "name", "0")>>,
            brand |-> <<Value("B", "brand", "0"), None>>,
            price |-> <<None, Dollar(Value("B", "price", "0"))>>,
            rating |-> <<Value("B", "rating", "0"), None>>]
      [] kind = "odd" ->
           [name |-> <<<<"U", "L", "T", "A">>, <<"B", "n">>>>,
            brand |-> <<<<>>, None>>,
            price |-> <<Value("B", "price", "0"), None>>,
            rating |-> <<<<>>, None>>]
      [] OTHER ->
           [name |-> <<Value("B", "brand", "0") \o <<" ", "-", " ">>
                          \o Value("B", "name", "0"), None>>,
            brand |-> <<None, Value("B", "brand", "0")>>,
            price |-> <<Dollar(Value("B", "price", "0")), None>>,
            rating |-> <<None, Value("B", "rating", "0")>>]

CssKinds == {"none", "all", "odd", "prefixed"}

\* ---- meta tags: og:title, product:brand, the price amount ----
MetaOf(kind) ==
    CASE kind = "none" -> [title |-> None, brand |-> None, price |-> None]
      [] kind = "all" ->
           [title |-> Value("M", "name", "0") \o <<" ", "-", " ", "X", " ", "|", " ", "S">>,
            brand |-> Value("M", "brand", "0"),
            price |-> <<"6">>]
      [] OTHER ->
           [title |-> Value("M", "name", "0") \o <<" ", "|", " ", "S">>,
            brand |-> None,
            price |-> <<"$", "6">>]

MetaKinds == {"none", "all", "dollar"}

\* ---- the raw markup: a "price" member (quoted or not), an
\* "average_rating" member ----
RawOf(kind) ==
    CASE kind = "none" -> [price |-> None, quoted |-> FALSE, rating |-> None]
      [] kind = "quoted" -> [price |-> <<"7">>, quoted |-> TRUE, rating |-> <<"4">>]
      [] OTHER -> [price |-> <<"7">>, quoted |-> FALSE, rating |-> None]

RawKinds == {"none", "quoted", "unquoted"}

\* ---- the JS context of the page (Sephora): execute_script raises, or
\* returns displayName and brandName ----
JsOf(kind) ==
    CASE kind = "none" -> [ok |-> TRUE, name |-> None, brand |-> None]
      [] kind = "all" -> [ok |-> TRUE, name |-> Value("J", "name", "0"),
                          brand |-> Value("J", "brand", "0")]
      [] OTHER -> [ok |-> FALSE, name |-> None, brand |-> None]

JsKinds == {"none", "all", "raises"}

\* ---- the rendered price element read by script (Sephora) ----
JsPriceOf(kind) ==
    CASE kind = "none" -> [ok |-> TRUE, text |-> None]
      [] kind = "text" -> [ok |-> TRUE, text |-> <<"f", "r", "o", "m", " ", "$", "5", ".", "5">>]
      [] OTHER -> [ok |-> FALSE, text |-> None]

JsPriceKinds == {"none", "text", "raises"}

\* ---- the texts of the breadcrumb items in the parsed markup (Ulta) ----
CrumbsOf(kind) ==
    CASE kind = "none" -> <<>>
      [] kind = "home" -> <<<<"H", "o", "m", "e">>>>
      [] OTHER -> <<<<"H", "o", "m", "e">>, <<"S", "k", "i", "n">>>>

CrumbKinds == {"none", "home", "trail"}

\* ---- driver.find_elements on the breadcrumb of the live page: no item,
\* items (the text of the last one), or the call raises ----
DomProbes == {"none", "trail", "raises"}

DomText == <<" ", "L", "i", "p", "s">>

PageOf(ld, css, meta, raw, js, jsprice, crumbs) ==
    [ld |-> ld, css |-> CssOf(css), meta |-> MetaOf(meta), raw |-> RawOf(raw),
     js |-> JsOf(js), js_price |-> JsPriceOf(jsprice), crumbs |-> CrumbsOf(crumbs)]

\* The pages tried.  The Ulta extractor never runs a script on the page.
PagesOf(site) ==
    {PageOf(ld, css, meta, raw, js, jp, bc) :
        ld \in LdPages, css \in CssKinds, meta \in MetaKinds, raw \in RawKinds,
        js \in (IF site = "ulta" THEN {"none"} ELSE JsKinds),
        jp \in (IF site = "ulta" THEN {"none"} ELSE JsPriceKinds),
        bc \in (IF site = "ulta" THEN CrumbKinds ELSE {"none"})}

\* ---- the strategies ----

\* The fields, all unresolved (lines 288-291 / 355-358).
NoFields ==
    [brand |-> None, name |-> None, price |-> None, rating |-> None,
     category |-> None]

\* A loop over a field's selectors that breaks at the first result that
\* passes (ok: the positions of the results that pass); rest is what the
\* variable holds when none passes.
FirstWhere(results, ok, rest) ==
    IF ok = {} THEN rest
    ELSE results[CHOOSE i \in ok : \A j \in ok : i <= j]

Truthy(v) == ~Falsy(v)

\* if r: break
TruthyAt(results) == {i \in 1..Len(results) : Truthy(results[i])}

Last(results) == results[Len(results)]

\* One JSON-LD block (Ulta 297-324, Sephora 446-472).  A malformed block and
\* a block of another @type are passed over; an empty offers list raises at
\* offers[0], which ends the block with name and brand already taken.
LdBlock(site, blk, rec) ==
    IF blk.kind = "malformed" \/ blk.type # "Product" THEN rec
    ELSE LET r1 == IF Unset(rec.name) THEN [rec EXCEPT !.name = blk.name] ELSE rec
             r2 == IF Unset(r1.brand) THEN [r1 EXCEPT !.brand = blk.brand] ELSE r1
             r3 == IF Unset(r2.price) /\ blk.offers \in {"dict", "list"}
                      /\ Truthy(blk.price)
                   THEN [r2 EXCEPT !.price = Dollar(blk.price)] ELSE r2
             r4 == IF Unset(r3.rating) /\ (site = "sephora" \/ Truthy(blk.rating))
                   THEN [r3 EXCEPT !.rating = blk.rating] ELSE r3
             r5 == IF Unset(r4.category) THEN [r4 EXCEPT !.category = blk.category]
                   ELSE r4
         IN  IF Unset(r2.price) /\ blk.offers = "empty" THEN r2 ELSE r5

\* The loop over the page's JSON-LD blocks.
RECURSIVE JsonLd(_, _, _)
JsonLd(site, blocks, rec) ==
    IF blocks = <<>> THEN rec
    ELSE JsonLd(site, Tail(blocks), LdBlock(site, Head(blocks), rec))

\* Ulta line 336
UltaNameOk(v) == Truthy(v) /\ Len(v) > 2 /\ Lower(v) # <<"u", "l", "t", "a">>

UltaNameAt(results) == {i \in 1..Len(results) : UltaNameOk(results[i])}

\* Ulta line 359
UltaPriceOk(v) == Truthy(v) /\ Contains(v, "$")

UltaPriceAt(results) == {i \in 1..Len(results) : UltaPriceOk(results[i])}

\* Ulta 326-361: CSS selectors
UltaCss(pg, rec) ==
    [rec EXCEPT
       !.name = IF Unset(@) THEN FirstWhere(pg.css.name, UltaNameAt(pg.css.name), None) ELSE @,
       !.brand = IF Unset(@) THEN FirstWhere(pg.css.brand, TruthyAt(pg.css.brand),
                                      Last(pg.css.brand))
                 ELSE @,
       !.price = IF Unset(@) THEN FirstWhere(pg.css.price, UltaPriceAt(pg.css.price), None) ELSE @]

\* Ulta 363-378: meta tags
UltaMeta(pg, rec) ==
    [rec EXCEPT
       !.name = IF Unset(@) /\ Truthy(pg.meta.title)
                THEN Strip(SplitFirst(SplitFirst(pg.meta.title, "|"), "-"), Whitespace)
                ELSE @,
       !.brand = IF Unset(@) THEN pg.meta.brand ELSE @,
       !.price = IF Unset(@) /\ Truthy(pg.meta.price)
                 THEN (IF StartsWith(pg.meta.price, <<"$">>) THEN pg.meta.price
                       ELSE Dollar(pg.meta.price))
                 ELSE @]

\* Ulta 380-389: patterns over the raw markup
UltaRegex(pg, rec) ==
    [rec EXCEPT
       !.price = IF Unset(@) /\ pg.raw.price # None THEN Dollar(pg.raw.price) ELSE @,
       !.rating = IF Unset(@) /\ pg.raw.rating # None THEN pg.raw.rating ELSE @]

\* Sephora 362-376: brandName and displayName of the JS context
SephoraJs(pg, rec) ==
    IF pg.js.ok THEN [rec EXCEPT !.brand = pg.js.brand, !.name = pg.js.name]
    ELSE rec

\* Sephora 404-427: CSS selectors
SephoraCss(pg, rec) ==
    [rec EXCEPT
       !.brand = IF Unset(@) THEN FirstWhere(pg.css.brand, TruthyAt(pg.css.brand),
                                      Last(pg.css.brand))
                 ELSE @,
       !.name = IF Unset(@) THEN FirstWhere(pg.css.name, TruthyAt(pg.css.name), Last(pg.css.name))
                ELSE @,
       !.price = IF Unset(@) THEN FirstWhere(pg.css.price, TruthyAt(pg.css.price),
                                      Last(pg.css.price))
                 ELSE @,
       !.rating = IF Unset(@) THEN FirstWhere(pg.css.rating, TruthyAt(pg.css.rating), @) ELSE @]

\* Sephora 429-442: meta tags
SephoraMeta(pg, rec) ==
    [rec EXCEPT
       !.name = IF Unset(@) /\ Truthy(pg.meta.title)
                THEN Strip(SplitFirst(pg.meta.title, "|"), Whitespace)
                ELSE @,
       !.brand = IF Unset(@) THEN pg.meta.brand ELSE @,
       !.price = IF Unset(@)
                 THEN (IF Truthy(pg.meta.price) /\ ~StartsWith(pg.meta.price, <<"$">>)
                       THEN Dollar(pg.meta.price) ELSE pg.meta.price)
                 ELSE @]

\* Sephora 474-486: the first block of any @type with a rating value
SephoraRatingFallback(pg, rec) ==
    LET rated == {i \in 1..Len(pg.ld) :
                     pg.ld[i].kind = "object" /\ Truthy(pg.ld[i].rating)}
        none == [rating |-> rec.rating]
    IN  [rec EXCEPT !.rating = IF Unset(@)
                               THEN FirstWhere(pg.ld, rated, none).rating
                               ELSE @]

\* Sephora 488-492: a quoted "price" member of the raw markup
SephoraRegex(pg, rec) ==
    [rec EXCEPT !.price = IF Unset(@) /\ pg.raw.price # None /\ pg.raw.quoted
                          THEN Dollar(pg.raw.price) ELSE @]

\* Sephora 494-507: the rendered price element
SephoraJsPrice(pg, rec) ==
    [rec EXCEPT !.price = IF Unset(@) /\ pg.js_price.ok /\ Truthy(pg.js_price.text)
                             /\ DollarAmount(pg.js_price.text) # None
                          THEN DollarAmount(pg.js_price.text) ELSE @]

\* Sephora 515-517: a leading brand name is cut off the product name
NameCleanup(name, brand) ==
    IF Truthy(name) /\ Truthy(brand) /\ StartsWith(name, brand)
    THEN Strip(SubSeq(name, Len(brand) + 1, Len(name)), DashChars)
    ELSE name

\* Ulta 391-397: the last breadcrumb item of the parsed markup that is not
\* "home"
NotHome(texts) == SelectSeq(texts, LAMBDA t : Lower(t) # <<"h", "o", "m", "e">>)

UltaCrumbs(pg, rec) ==
    IF Falsy(rec.category) /\ NotHome(pg.crumbs) # <<>>
    THEN [rec EXCEPT !.category = Last(NotHome(pg.crumbs))]
    ELSE rec

\* Ulta 399-402, Sephora 510-513: the breadcrumb of the live page, asked for
\* only while the category is unresolved; the call is in no try block.
ProbeRaises(dom, rec) == Falsy(rec.category) /\ dom = "raises"

DomProbe(site, dom, rec) ==
    IF Falsy(rec.category) /\ dom = "trail"
    THEN [rec EXCEPT !.category = IF site = "ulta" THEN Strip(DomText, Whitespace)
                                  ELSE DomText]
    ELSE rec

\* Sephora 516: name.startswith(brand) raises unless both are strings.
CleanupRaises(rec) ==
    Truthy(rec.name) /\ Truthy(rec.brand) /\ ~(IsText(rec.name) /\ IsText(rec.brand))

\* The record returned (Ulta 404-412, Sephora 519-528), less the ids and the
\* url.
Record(rec) ==
    [brand |-> rec.brand, product_name |-> rec.name, price |-> rec.price,
     rating |-> rec.rating, category |-> rec.category]

\* scrape_ulta.py: JSON-LD, CSS selectors, meta tags, raw patterns, the
\* breadcrumb of the markup.
UltaFields(pg) ==
    UltaCrumbs(pg, UltaRegex(pg, UltaMeta(pg, UltaCss(pg,
                   JsonLd("ulta", pg.ld, NoFields)))))

\* scrape_sephora.py: JS context, CSS selectors, meta tags, JSON-LD, the
\* rating and price fallbacks.
SephoraFields(pg) ==
    SephoraJsPrice(pg, SephoraRegex(pg, SephoraRatingFallback(pg,
        JsonLd("sephora", pg.ld,
            SephoraMeta(pg, SephoraCss(pg, SephoraJs(pg, NoFields)))))))

\* scrape_product_page of scrape_ulta.py, from line 288 on.
scrape_fields_ulta(pg, dom) == Record(DomProbe("ulta", dom, UltaFields(pg)))

\* scrape_product_page of scrape_sephora.py, from line 355 on, with the name
\* cleanup.
scrape_fields_sephora(pg, dom) ==
    LET rec == DomProbe("sephora", dom, SephoraFields(pg))
    IN  Record([rec EXCEPT !.name = NameCleanup(rec.name, rec.brand)])

\* An exception leaves scrape_product_page.
ExtractRaises(site, pg, dom) ==
    IF site = "ulta" THEN ProbeRaises(dom, UltaFields(pg))
    ELSE \/ ProbeRaises(dom, SephoraFields(pg))
         \/ CleanupRaises(SephoraFields(pg))

ExtractIdle ==
    /\ ex_site = ""
    /\ ex_page = <<>>
    /\ ex_pc = "off"
    /\ ex_result = <<>>

\* A product page has been loaded and parsed.
InitExtract ==
    /\ ex_site \in {"ulta", "sephora"}
    /\ ex_page \in PagesOf(ex_site)
    /\ ex_pc = "page"
    /\ ex_result = Record(NoFields)

\* The fields are resolved and the record is returned, or an exception
\* leaves the function.
Extract ==
    /\ ex_pc = "page"
    /\ \E dom \in DomProbes :
         IF ExtractRaises(ex_site, ex_page, dom)
         THEN /\ ex_pc' = "raised"
              /\ UNCHANGED ex_result
         ELSE /\ ex_pc' = "returned"
              /\ ex_result' = IF ex_site = "ulta" THEN scrape_fields_ulta(ex_page, dom)
                              ELSE scrape_fields_sephora(ex_page, dom)
    /\ UNCHANGED <<ex_site, ex_page>>
    /\ UNCHANGED notExtract

NextExtract == Extract

----------------------------------------------------------------------------
(* main() of scrape_sephora.py (595-662) *)

\* DataFrame(records).to_csv(path, index=False): the file is written anew;
\* a frame without records has no columns and so no header row.
to_csv_write(ids) ==
    [exists |-> TRUE,
     rows   |-> IF ids = <<>> THEN <<>>
                ELSE <<HeaderRow>> \o [i \in 1..Len(ids) |-> DataRow(ids[i])]]

\* What a step of the Sephora main() did: the product page it loaded and the
\* product it requested reviews for.
NoVisit == [render |-> 0, req |-> 0]

SephoraIdle ==
    /\ sephora_products_csv = NoFile
    /\ sephora_reviews_csv = NoFile
    /\ sp_pc = "idle"
    /\ sp_brand_urls = <<>>
    /\ sp_bi = 1
    /\ sp_product_urls = <<>>
    /\ sp_ui = 1
    /\ sp_all_products = <<>>
    /\ sp_all_reviews = <<>>
    /\ sp_seen = {}
    /\ sp_ev = NoVisit

\* Lines 595-604: a process starts; nothing is read back from earlier runs.
SephoraStart ==
    /\ sp_pc \in {"idle", "done"}
    /\ sp_brand_urls' \in BrandLists
    /\ sp_bi' = 1
    /\ sp_product_urls' = <<>>
    /\ sp_ui' = 1
    /\ sp_all_products' = <<>>
    /\ sp_all_reviews' = <<>>
    /\ sp_seen' = {}
    /\ sp_pc' = "brand"
    /\ UNCHANGED <<sephora_products_csv, sephora_reviews_csv>>
    /\ sp_ev' = NoVisit
    /\ UNCHANGED notSephora

\* Lines 606-612: the next brand is materialized; a brand without links is
\* passed over.
SephoraBrand ==
    /\ sp_pc = "brand"
    /\ IF sp_bi > Len(sp_brand_urls)
       THEN /\ sp_pc' = "save"
            /\ UNCHANGED <<sp_bi, sp_product_urls, sp_ui>>
       ELSE \E visit \in BrandVisits(sp_brand_urls[sp_bi]) :
               IF visit.urls = <<>>
               THEN /\ sp_bi' = sp_bi + 1
                    /\ sp_pc' = "brand"
                    /\ sp_product_urls' = <<>>
                    /\ UNCHANGED sp_ui
               ELSE /\ sp_product_urls' = visit.urls
                    /\ sp_ui' = 1
                    /\ sp_pc' = "product"
                    /\ UNCHANGED sp_bi
    /\ UNCHANGED <<sephora_products_csv, sephora_reviews_csv, sp_brand_urls,
                   sp_all_products, sp_all_reviews, sp_seen>>
    /\ sp_ev' = NoVisit
    /\ UNCHANGED notSephora

\* Lines 628-631, after scrape_product_page has loaded the page (line 621):
\* pid in seen_product_ids.
SephoraAlreadyHave(pid, seen) == pid \in seen

\* Lines 614-644: one iteration of the loop over the product links.
SephoraProduct ==
    /\ sp_pc = "product"
    /\ IF sp_ui > Len(sp_product_urls)
          \/ AtCap(sp_seen)
       THEN /\ sp_pc' = "cap"
            /\ sp_ev' = NoVisit
            /\ UNCHANGED <<sp_ui, sp_all_products, sp_all_reviews, sp_seen>>
       ELSE LET pid == scrape_product_page(sp_product_urls[sp_ui]).product_id IN
            /\ sp_ui' = sp_ui + 1
            /\ sp_pc' = "product"
            /\ IF SephoraAlreadyHave(pid, sp_seen)
               THEN /\ sp_ev' = [NoVisit EXCEPT !.render = pid]
                    /\ UNCHANGED <<sp_all_products, sp_all_reviews, sp_seen>>
               ELSE \E revs \in FetchOutcomes(pid) :
                      /\ sp_ev' = [render |-> pid, req |-> pid]
                      /\ sp_seen' = sp_seen \cup {pid}
                      /\ sp_all_products' = Append(sp_all_products, pid)
                      /\ sp_all_reviews' = sp_all_reviews \o revs
    /\ UNCHANGED <<sephora_products_csv, sephora_reviews_csv, sp_brand_urls, sp_bi,
                   sp_product_urls>>
    /\ UNCHANGED notSephora

\* Lines 646-648: the global cap ends the loop over the brands.
SephoraCapCheck ==
    /\ sp_pc = "cap"
    /\ IF AtCap(sp_seen)
       THEN sp_pc' = "save" /\ sp_bi' = sp_bi
       ELSE sp_pc' = "brand" /\ sp_bi' = sp_bi + 1
    /\ UNCHANGED <<sephora_products_csv, sephora_reviews_csv, sp_brand_urls,
                   sp_product_urls, sp_ui, sp_all_products, sp_all_reviews, sp_seen>>
    /\ sp_ev' = NoVisit
    /\ UNCHANGED notSephora

\* Lines 652-657: the product file is written from the list in memory.
SephoraSave ==
    /\ sp_pc = "save"
    /\ sephora_products_csv' = to_csv_write(sp_all_products)
    /\ sp_pc' = "save_reviews"
    /\ sp_ev' = NoVisit
    /\ UNCHANGED <<sephora_reviews_csv, sp_brand_urls, sp_bi, sp_product_urls, sp_ui,
                   sp_all_products, sp_all_reviews, sp_seen>>
    /\ UNCHANGED notSephora

\* Line 658: the review file is written from the list in memory.
SephoraSaveReviews ==
    /\ sp_pc = "save_reviews"
    /\ sephora_reviews_csv' = to_csv_write(sp_all_reviews)
    /\ sp_pc' = "done"
    /\ sp_ev' = NoVisit
    /\ UNCHANGED <<sephora_products_csv, sp_brand_urls, sp_bi, sp_product_urls, sp_ui,
                   sp_all_products, sp_all_reviews, sp_seen>>
    /\ UNCHANGED notSephora

\* The process is stopped between two steps.
SephoraHalt ==
    /\ sp_pc \notin {"idle", "done"}
    /\ sp_pc' = "idle"
    /\ sp_brand_urls' = <<>>
    /\ sp_bi' = 1
    /\ sp_product_urls' = <<>>
    /\ sp_ui' = 1
    /\ sp_all_products' = <<>>
    /\ sp_all_reviews' = <<>>
    /\ sp_seen' = {}
    /\ UNCHANGED <<sephora_products_csv, sephora_reviews_csv>>
    /\ sp_ev' = NoVisit
    /\ UNCHANGED notSephora

NextSephora ==
    \/ SephoraStart
    \/ SephoraBrand
    \/ SephoraProduct
    \/ SephoraCapCheck
    \/ SephoraSave
    \/ SephoraSaveReviews
    \/ SephoraHalt

----------------------------------------------------------------------------
(* norm_url (scrape_ulta.py 61-67, scrape_sephora.py 59-65), on the characters
   of the link *)

\* Longest raw link tried.
MaxUrlLen == 3

\* BASE = "https://www.ulta.com"
BASE == <<"h", "t", "t", "p", "s", ":", "/", "/", "w", "w", "w", ".",
          "u", "l", "t", "a", ".", "c", "o", "m">>

\* The characters of the raw links tried.
UrlChars == {"/", "?", " ", "p", "h"}

\* The raw links: None, the empty string, and every string over UrlChars.
RawLinks == {None} \cup UNION {[1..n -> UrlChars] : n \in 0..MaxUrlLen}

\* Mutant: the leading "/" is tested before the whitespace is stripped.
norm_url_chars_StripLast(u) ==
    IF Falsy(u) THEN u
    ELSE LET cut == SplitFirst(u, "?")
         IN  IF StartsWith(cut, <<"/">>) THEN BASE \o Strip(cut, Whitespace)
             ELSE Strip(cut, Whitespace)

\* norm_url: a falsy argument is returned as it is; otherwise the text before
\* the first "?" is stripped, and BASE is put before a leading "/".
norm_url_chars(u) ==
    IF Falsy(u) THEN u
    ELSE LET cut == Strip(SplitFirst(u, "?"), Whitespace)
         IN  IF StartsWith(cut, <<"/">>) THEN BASE \o cut ELSE cut

NormIdle ==
    /\ nu_u = <<>>
    /\ nu_pc = "off"
    /\ nu_once = <<>>
    /\ nu_twice = <<>>

InitNorm ==
    /\ nu_u \in RawLinks
    /\ nu_pc = "call"
    /\ nu_once = <<>>
    /\ nu_twice = <<>>

\* norm_url(u)
NormOnce ==
    /\ nu_pc = "call"
    /\ nu_once' = norm_url_chars(nu_u)
    /\ nu_pc' = "once"
    /\ UNCHANGED <<nu_u, nu_twice>>
    /\ UNCHANGED notNorm

\* norm_url applied to its own result
NormTwice ==
    /\ nu_pc = "once"
    /\ nu_twice' = norm_url_chars(nu_once)
    /\ nu_pc' = "twice"
    /\ UNCHANGED <<nu_u, nu_once>>
    /\ UNCHANGED notNorm

NextNorm == NormOnce \/ NormTwice

----------------------------------------------------------------------------
(* get_product_urls_from_brand (scrape_ulta.py 225-272, scrape_sephora.py
   282-339) and the test main() makes on its empty result *)

\* Most links one attempt collects.
MaxVisitLinks == 2

\* driver.current_url after the load: the listing, the error route, or
\* another address that holds "/404".
UrlKinds == {"listing", "error/404", "/404"}

\* driver.page_source: with or without the access-denied text.
HtmlKinds == {"plain", "denied"}

\* is_404_url (scrape_ulta.py 80-81, scrape_sephora.py 77-78)
is_404_url(site, cur) ==
    IF site = "ulta" THEN cur \in {"error/404", "/404"} ELSE cur = "error/404"

\* is_access_denied (scrape_ulta.py 74-78)
is_access_denied(html) == html = "denied"

\* What scroll_and_collect_product_links can return.
VisitLinks == {[i \in 1..n |-> i] : n \in 0..MaxVisitLinks}

\* Mutant: the loop gives up after the second attempt.
LastAttempt_Two(a) == a >= 2

\* for attempt in range(1, 4): attempt 3 is the last one.
LastAttempt(a) == a >= 3

VisitIdle ==
    /\ gv_site = ""
    /\ gv_pc = "off"
    /\ attempt = 0
    /\ gv_page = <<>>
    /\ gv_loads = 0
    /\ gv_scrolls = 0
    /\ gv_hist = <<>>
    /\ gv_result = <<>>
    /\ gv_status = ""
    /\ gv_restart = FALSE

\* The call, before the first attempt.
InitVisit ==
    /\ gv_site \in {"ulta", "sephora"}
    /\ gv_pc = "load"
    /\ attempt = 1
    /\ gv_page = <<>>
    /\ gv_loads = 0
    /\ gv_scrolls = 0
    /\ gv_hist = <<>>
    /\ gv_result = <<>>
    /\ gv_status = ""
    /\ gv_restart = FALSE

\* Ulta 233-245: driver.get(base), then the two classifications.
VisitLoad ==
    /\ gv_pc = "load"
    /\ gv_loads' = gv_loads + 1
    /\ \E cur \in UrlKinds, html \in HtmlKinds :
         /\ gv_page' = [cur |-> cur, html |-> html]
         /\ IF is_404_url(gv_site, cur)
            THEN /\ gv_pc' = "returned"
                 /\ gv_status' = "not_found"
                 /\ gv_hist' = Append(gv_hist, "not_found")
            ELSE IF is_access_denied(html)
            THEN /\ gv_pc' = "returned"
                 /\ gv_status' = "blocked"
                 /\ gv_hist' = Append(gv_hist, "blocked")
            ELSE /\ gv_pc' = "collect"
                 /\ UNCHANGED <<gv_status, gv_hist>>
    /\ UNCHANGED <<gv_site, attempt, gv_scrolls, gv_result, gv_restart>>
    /\ UNCHANGED notVisit

\* Ulta 247-266: the wait for the grid, the reveal rounds, the return of a
\* result that is not empty.
VisitCollect ==
    /\ gv_pc = "collect"
    /\ gv_scrolls' = gv_scrolls + 1
    /\ \E urls \in VisitLinks :
         IF urls # <<>>
         THEN /\ gv_result' = urls
              /\ gv_pc' = "returned"
              /\ gv_status' = "links"
              /\ gv_hist' = Append(gv_hist, "links")
         ELSE /\ gv_pc' = "refresh"
              /\ gv_hist' = Append(gv_hist, "empty")
              /\ UNCHANGED <<gv_result, gv_status>>
    /\ UNCHANGED <<gv_site, attempt, gv_page, gv_loads, gv_restart>>
    /\ UNCHANGED notVisit

\* Ulta 268-272: driver.refresh(), then the next attempt, or the return of
\* the empty list after the last one.
VisitRefresh ==
    /\ gv_pc = "refresh"
    /\ \E cur \in UrlKinds, html \in HtmlKinds :
         gv_page' = [cur |-> cur, html |-> html]
    /\ IF LastAttempt(attempt)
       THEN /\ gv_pc' = "returned"
            /\ gv_status' = "exhausted"
            /\ UNCHANGED attempt
       ELSE /\ gv_pc' = "load"
            /\ attempt' = attempt + 1
            /\ UNCHANGED gv_status
    /\ UNCHANGED <<gv_site, gv_loads, gv_scrolls, gv_hist, gv_result, gv_restart>>
    /\ UNCHANGED notVisit

\* main() on the result: scrape_ulta.py 573-577 starts a new session when the
\* result is empty and the page in the browser shows the access-denied text;
\* scrape_sephora.py 610-612 never does.
MainCheck ==
    /\ gv_pc = "returned"
    /\ gv_pc' = "checked"
    /\ gv_restart' = /\ gv_site = "ulta"
                     /\ gv_result = <<>>
                     /\ is_access_denied(gv_page.html)
    /\ UNCHANGED <<gv_site, attempt, gv_page, gv_loads, gv_scrolls, gv_hist,
                   gv_result, gv_status>>
    /\ UNCHANGED notVisit

NextVisit ==
    \/ VisitLoad
    \/ VisitCollect
    \/ VisitRefresh
    \/ MainCheck

----------------------------------------------------------------------------
(* The save after every brand (scrape_ulta.py 638-654), on one of the two   *)
(* output files.                                                            *)

\* Most saves followed.
MaxFlushes == 3

\* Most records a brand gives to one save.
MaxGroup == 2

\* The records handed to a save: ids 1 and 2, at most MaxGroup of them.
FlushGroups == UNION {[1..n -> 1..2] : n \in 0..MaxGroup}

\* A file that exists and holds nothing: what open(path, "a") leaves when the
\* process is stopped before the first buffer is written, or a file put in
\* the output directory by hand.
EmptyFile == [exists |-> TRUE, rows |-> <<>>]

NoFlush == [empty |-> FALSE, header |-> FALSE, wrote |-> FALSE]

FlushIdle ==
    /\ fl_file = NoFile
    /\ fl_count = 0
    /\ fl_last = NoFlush

\* The output file when the first run starts: absent, or there and empty.
InitFlush ==
    /\ fl_file \in {NoFile, EmptyFile}
    /\ fl_count = 0
    /\ fl_last = NoFlush

\* Lines 639-646 and 648-654: a brand that gave records appends them.
FlushGroup ==
    /\ fl_count < MaxFlushes
    /\ \E ids \in FlushGroups \ {<<>>} :
          /\ fl_file' = to_csv_append(fl_file, ids)
          /\ fl_last' = [empty  |-> (fl_file.rows = <<>>),
                         header |-> (Len(fl_file'.rows) - Len(fl_file.rows) > Len(ids)),
                         wrote  |-> TRUE]
    /\ fl_count' = fl_count + 1
    /\ UNCHANGED notFlush

\* Lines 639 and 648: a brand that gave no record leaves the file alone.
FlushNothing ==
    /\ fl_count < MaxFlushes
    /\ fl_last' = NoFlush
    /\ fl_count' = fl_count + 1
    /\ UNCHANGED fl_file
    /\ UNCHANGED notFlush

NextFlush == FlushGroup \/ FlushNothing

----------------------------------------------------------------------------
(* Specifications *)

MainIdle ==
    /\ products_path = NoFile
    /\ reviews_path = NoFile
    /\ brands_done_path = <<>>
    /\ other_pids = {}
    /\ resumed = NoUrl
    /\ got_reviews = {}
    /\ Idle

Init ==
    /\ InitMain /\ ScrollIdle /\ ReviewsIdle /\ ExtractIdle /\ SephoraIdle /\ NormIdle
    /\ VisitIdle
    /\ FlushIdle

Spec == Init /\ [][NextMain]_vars

InitScrollOnly ==
    /\ InitScroll /\ MainIdle /\ ReviewsIdle /\ ExtractIdle /\ SephoraIdle /\ NormIdle
    /\ VisitIdle
    /\ FlushIdle

SpecScroll == InitScrollOnly /\ [][NextScroll]_vars

\* The call runs on: the loop takes its next step whenever it has one.
SpecScrollFair == SpecScroll /\ WF_vars(NextScroll)

InitReviewsOnly ==
    /\ InitReviews /\ MainIdle /\ ScrollIdle /\ ExtractIdle /\ SephoraIdle /\ NormIdle
    /\ VisitIdle
    /\ FlushIdle

SpecReviews == InitReviewsOnly /\ [][NextReviews]_vars

InitExtractOnly ==
    /\ InitExtract /\ MainIdle /\ ScrollIdle /\ ReviewsIdle /\ SephoraIdle /\ NormIdle
    /\ VisitIdle
    /\ FlushIdle

SpecExtract == InitExtractOnly /\ [][NextExtract]_vars

InitSephoraOnly ==
    /\ SephoraIdle /\ MainIdle /\ ScrollIdle /\ ReviewsIdle /\ ExtractIdle /\ NormIdle
    /\ VisitIdle
    /\ FlushIdle

SpecSephora == InitSephoraOnly /\ [][NextSephora]_vars

InitNormOnly ==
    /\ InitNorm /\ MainIdle /\ ScrollIdle /\ ReviewsIdle /\ ExtractIdle /\ SephoraIdle
    /\ VisitIdle
    /\ FlushIdle

SpecNorm == InitNormOnly /\ [][NextNorm]_vars

InitVisitOnly ==
    /\ InitVisit /\ MainIdle /\ ScrollIdle /\ ReviewsIdle /\ ExtractIdle /\ SephoraIdle
    /\ NormIdle
    /\ FlushIdle

SpecVisit == InitVisitOnly /\ [][NextVisit]_vars

InitFlushOnly ==
    /\ InitFlush /\ MainIdle /\ ScrollIdle /\ ReviewsIdle /\ ExtractIdle /\ SephoraIdle
    /\ NormIdle /\ VisitIdle

SpecFlush == InitFlushOnly /\ [][NextFlush]_vars

----------------------------------------------------------------------------
(* Properties of main() *)

PersistedIds == read_ids(products_path.rows)

\* The ids in the persisted output before the current group was flushed.
PersistedBefore == PersistedPids \ Range(brand_products)

NoRenderOfPersisted == ev.render # 0 => ev.render \notin PersistedPids

\* The group logged by the last step is the one flushed, but not logged,
\* when the previous run was halted.
ResumedGroupLogged ==
    /\ resumed # NoUrl
    /\ ev.log # NoUrl
    /\ ev.log.slug = resumed.slug

AllLinksAttempted ==
    \A i \in 1..Len(product_urls) : product_urls[i].pid \in seen_product_ids

C4_NeverRematerialized ==
    ev.mat # NoUrl =>
        \A i \in 1..Len(brands_done_path) : brands_done_path[i].slug # ev.mat.slug

\* A brand logged by an earlier run comes back in upper case, after a brand
\* with a trailing slash, and the run has gone past both.
C4_Witness ==
    /\ pc = "brand"
    /\ bi = 3
    /\ brand_urls[1].slash
    /\ brand_urls[2].upper
    /\ Len(brands_done_path) = 2
    /\ brands_done_path[1].slug = brand_urls[2].slug

\* C5 (skip-ahead): the step after a materialization logs the group and
\* loads no product page and issues no review request when every id of the
\* first 5 links (of all links when fewer) is seen, and starts the traversal
\* otherwise.
C5_SkipAhead ==
    [][(pc = "sample" /\ pc' # "idle") =>
        LET n == IF Len(product_urls) < 5 THEN Len(product_urls) ELSE 5
            sampled == {product_urls[i].pid : i \in 1..n}
        IN  IF sampled \subseteq seen_product_ids
            THEN /\ Len(brands_done_path') = Len(brands_done_path) + 1
                 /\ SubSeq(brands_done_path', 1, Len(brands_done_path)) = brands_done_path
                 /\ brands_done_path'[Len(brands_done_path')].slug = brand_urls[bi].slug
                 /\ ev'.render = 0
                 /\ ev'.req = 0
                 /\ pc' = "brand"
                 /\ bi' = bi + 1
            ELSE /\ brands_done_path' = brands_done_path
                 /\ pc' = "product"
                 /\ ui' = 1
    ]_vars

\* The early exit fired on a group of six links whose sixth product is not seen.
C5_Witness ==
    /\ ev.why = "sample"
    /\ Len(product_urls) = 6
    /\ product_urls[6].pid \notin seen_product_ids

----------------------------------------------------------------------------
(* Properties of scroll_and_collect_product_links *)

\* The unique-link count after round k; before the first round it is 0.
CountAfter(k) == IF k = 0 THEN 0 ELSE sc_counts[k]

\* Rounds k-2, k-1 and k each left the unique-link count unchanged.
ThreeUnchanged(k) ==
    /\ k >= 3
    /\ CountAfter(k) = CountAfter(k - 1)
    /\ CountAfter(k - 1) = CountAfter(k - 2)
    /\ CountAfter(k - 2) = CountAfter(k - 3)

\* C7 (stagnation rule): the loop stops for stagnation only after 3
\* consecutive rounds that left the unique-link count unchanged, and it has
\* stopped, returning what it collected, as soon as there are 3 such rounds:
\* no round is started after them.
C7_StagnationRule ==
    /\ sc_reason = "stagnant" => ThreeUnchanged(Len(sc_counts))
    /\ \A k \in 1..Len(sc_counts) :
          ThreeUnchanged(k) => /\ k = Len(sc_counts)
                               /\ sc_round = k
                               /\ sc_pc = "returned"
                               /\ sc_reason = "stagnant"

\* Rounds 1-3 each added a link, rounds 4-6 added none: the function has
\* returned after round 6, below the limit, with a seventh round allowed.
C7_Witness ==
    /\ sc_counts = <<1, 2, 3, 3, 3, 3>>
    /\ sc_pc = "returned"
    /\ sc_round = 6
    /\ max_scrolls >= 7
    /\ Len(sc_product_urls) < limit

----------------------------------------------------------------------------
(* Properties of fetch_reviews *)

\* The cap on the records of one entity: max_reviews (Ulta), max_pages pages
\* (Sephora).
ReviewCap == IF rv_site = "ulta" THEN max_reviews ELSE max_pages * page_size

\* The call was made with an id, has returned, and every response was the
\* full window of a server that reports total_results.
ReturnedFromHonestServer == rv_pc = "returned" /\ rv_has_id /\ rv_honest

RequestSizes == [i \in 1..Len(rv_reqs) |-> rv_reqs[i].n]

NoRequestAfterEmptyPage ==
    \A i \in 1..Len(rv_reqs) : i < Len(rv_reqs) => rv_reqs[i].ok /\ rv_reqs[i].n > 0

\* C8 as stated: with the cap at least the total T, exactly ceil(T / page
\* size) requests, none of them issued after the accumulated count reached T,
\* the T records returned in source order, and no request after an empty page.
C8_Original ==
    /\ (ReturnedFromHonestServer /\ ReviewCap >= total_results)
          => /\ Len(rv_reqs) = Ceil(total_results, page_size)
             /\ rv_result = Records(0, total_results)
             /\ \A i \in 1..Len(rv_reqs) : rv_reqs[i].have < total_results
    /\ NoRequestAfterEmptyPage

\* C8 (amended): against a server that reports total T and serves full
\* windows, with the cap at least T: for T >= 1 exactly ceil(T / page size)
\* requests are issued, of the window sizes in order, and the T records are
\* returned in source order; for T = 0 one request is issued if the cap allows
\* a page (it comes back empty) and nothing is returned.  Against any server,
\* with T >= 1 no request is issued once the accumulated count has reached T,
\* and no request follows a failed or empty page.
C8_PaginationTermination ==
    /\ (ReturnedFromHonestServer /\ ReviewCap >= total_results /\ total_results >= 1)
          => /\ Len(rv_reqs) = Ceil(total_results, page_size)
             /\ \A i \in 1..Len(rv_reqs) :
                    rv_reqs[i].n = Min(page_size, total_results - (i - 1) * page_size)
             /\ rv_result = Records(0, total_results)
    /\ (ReturnedFromHonestServer /\ total_results = 0)
          => /\ Len(rv_reqs) = (IF max_pages >= 1 THEN 1 ELSE 0)
             /\ rv_result = <<>>
    /\ total_results >= 1
          => \A i \in 1..Len(rv_reqs) : rv_reqs[i].have < total_results
    /\ NoRequestAfterEmptyPage

\* A total of 45 in pages of 20: requests of 20, 20 and 5, 45 records.
C8_Witness ==
    /\ ReturnedFromHonestServer
    /\ total_results = 45
    /\ page_size = 20
    /\ ReviewCap >= 45
    /\ RequestSizes = <<20, 20, 5>>
    /\ Len(rv_result) = 45

\* C9: with a cap C >= 1 and a server total T > C (full windows served), the
\* first C records are returned, in source order, after exactly ceil(C / page
\* size) requests; whatever the server does, the returned list never has more
\* than C records.
C9_CapEnforcement ==
    /\ (ReturnedFromHonestServer /\ ReviewCap >= 1 /\ total_results > ReviewCap)
          => /\ rv_result = Records(0, ReviewCap)
             /\ Len(rv_reqs) = Ceil(ReviewCap, page_size)
    /\ rv_pc = "returned" => Len(rv_result) <= ReviewCap

\* A cap of 30, pages of 20, a total of 45: 30 records after 2 requests.
C9_Witness ==
    /\ ReturnedFromHonestServer
    /\ rv_site = "ulta"
    /\ max_reviews = 30
    /\ page_size = 20
    /\ total_results = 45
    /\ Len(rv_result) = 30
    /\ Len(all_reviews) = 40
    /\ Len(rv_reqs) = 2

----------------------------------------------------------------------------
(* Properties of scrape_product_page *)

\* Value A: what the page's structured data holds for field f, in the first
\* well-formed Product block that has the field.
BlockValue(blk, f) ==
    CASE f = "name" -> blk.name
      [] f = "brand" -> blk.brand
      [] f = "price" -> (IF blk.offers \in {"dict", "list"} THEN blk.price ELSE None)
      [] OTHER -> blk.rating

StructuredValue(pg, f) ==
    LET has == {i \in 1..Len(pg.ld) :
                   /\ pg.ld[i].kind = "object"
                   /\ pg.ld[i].type = "Product"
                   /\ BlockValue(pg.ld[i], f) # None
                   /\ BlockValue(pg.ld[i], f) # <<>>}
    IN  IF has = {} THEN None
        ELSE BlockValue(pg.ld[CHOOSE i \in has : \A j \in has : i <= j], f)

\* Value B: what the first of the field's text selectors that finds text
\* yields.  The Ulta extractor has no text selector for the rating.
SelectorValue(site, pg, f) ==
    IF site = "ulta" /\ f = "rating" THEN None
    ELSE LET found == pg.css[f]
             at == {i \in 1..Len(found) : found[i] # None /\ found[i] # <<>>}
         IN  IF at = {} THEN None
             ELSE found[CHOOSE i \in at : \A j \in at : i <= j]

ContextValue(pg, f) ==
    IF pg.js.ok /\ f \in {"name", "brand"}
    THEN (IF f = "name" THEN pg.js.name ELSE pg.js.brand)
    ELSE None

Extracted(f) ==
    CASE f = "name" -> ex_result.product_name
      [] f = "brand" -> ex_result.brand
      [] f = "price" -> ex_result.price
      [] OTHER -> ex_result.rating

BothExposed(f) ==
    /\ ex_pc = "returned"
    /\ StructuredValue(ex_page, f) # None
    /\ SelectorValue(ex_site, ex_page, f) # None

\* C10 as stated: a field exposed via structured data (A) and via a text
\* selector (B) is extracted as A, for every field.
C10_Original ==
    \A f \in Fields : BothExposed(f) => Extracted(f) = StructuredValue(ex_page, f)

\* C10 (amended): for a field exposed via structured data (A) and via a text
\* selector (B), the Ulta extractor, whose order is structured data, text
\* selectors, meta tags, raw patterns, returns A for name and brand and the
\* currency symbol followed by A for price (it has no text selector for
\* rating); the Sephora extractor, whose order is JS context, text selectors,
\* meta tags, structured data, returns the JS context's value for name and
\* brand when it has one and B otherwise, the name less a leading brand name.
C10_FallbackOrder ==
    \A f \in Fields :
       BothExposed(f) =>
          LET A == StructuredValue(ex_page, f)
              B == SelectorValue(ex_site, ex_page, f)
              J == ContextValue(ex_page, f)
              first == IF Truthy(J) THEN J ELSE B
          IN  IF ex_site = "ulta"
              THEN Extracted(f) = (IF f = "price" THEN Dollar(A) ELSE A)
              ELSE Extracted(f) = (IF f = "name" THEN NameCleanup(first, ex_result.brand)
                                   ELSE first)

\* An Ulta page with a name in its first JSON-LD block and another behind a
\* name selector: the JSON-LD name is returned.
C10_Witness ==
    /\ ex_site = "ulta"
    /\ BothExposed("name")
    /\ StructuredValue(ex_page, "name") = Value("A", "name", "1")
    /\ SelectorValue(ex_site, ex_page, "name") = Value("B", "name", "0")
    /\ ex_result.product_name = Value("A", "name", "1")
    /\ BothExposed("price")
    /\ ex_result.price = Dollar(StructuredValue(ex_page, "price"))

----------------------------------------------------------------------------
(* Properties of main(): failures *)

\* C11 (failure isolation): a page load or render call that raises while an
\* entity or a group is processed does not abort the run (the orchestrator
\* goes on with the next entity or group), and the records collected so far
\* for the group in progress are not lost.
C11_FailureIsolation ==
    ev.raised => (pc # "idle" /\ ~ev.unsaved)

\* C12 (append-only persisted output): no step of any run rewrites, truncates
\* or removes a row of a product or review output file: the rows of each file
\* before the step are the first rows of the file after it.
AppendOnly(before, after) == IsPrefixOf(before.rows, after.rows)

C12_AppendOnly ==
    [][/\ AppendOnly(products_path, products_path')
       /\ AppendOnly(reviews_path, reviews_path')
       /\ AppendOnly(sephora_products_csv, sephora_products_csv')
       /\ AppendOnly(sephora_reviews_csv, sephora_reviews_csv')]_vars

----------------------------------------------------------------------------
(* Properties of scroll_and_collect_product_links: the returned sequence *)

NoDuplicates(seq) == \A i, j \in 1..Len(seq) : seq[i] = seq[j] => i = j

\* C13 (deduplicated, order of first discovery): whatever the pages show over
\* the rounds, the collected sequence holds no URL twice and lists the URLs in
\* the order in which they were first shown: it is the beginning of the
\* sequence of first showings, so a URL shown again keeps its position.
C13_DedupFirstDiscovery ==
    /\ NoDuplicates(sc_product_urls)
    /\ IsPrefixOf(sc_product_urls, sc_first)

\* The function returned two links or more after a round that showed again a
\* link of an earlier round.
C13_Witness ==
    /\ sc_pc = "returned"
    /\ sc_again
    /\ Len(sc_product_urls) >= 2
    /\ sc_round >= 2

----------------------------------------------------------------------------
(* Properties of norm_url *)

\* C14 (idempotence): for every raw link u, norm_url(norm_url(u)) is
\* norm_url(u), and norm_url(u) holds no "?".
C14_NormIdempotent ==
    /\ nu_pc \in {"once", "twice"} => ~Contains(nu_once, "?")
    /\ nu_pc = "twice" => nu_twice = nu_once

\* A relative link with blanks and a query string was normalized twice: its
\* normal form starts with BASE and differs from the raw link.
C14_Witness ==
    /\ nu_pc = "twice"
    /\ Contains(nu_u, "?")
    /\ Contains(nu_u, " ")
    /\ StartsWith(nu_once, BASE)
    /\ Len(nu_once) > Len(BASE)

----------------------------------------------------------------------------
(* Properties of scrape_product_page: failures *)

\* C15 (extraction never raises): whatever the page holds and whatever the
\* probe of the live page does, no exception leaves scrape_product_page.
C15_NeverRaises == ex_pc # "raised"

\* C16 (hard cap): whatever the pages show, and for any limit, the function
\* performs at most max_scrolls reveal rounds, and it returns.
C16_HardCap ==
    /\ [](sc_reveals <= max_scrolls /\ sc_round <= max_scrolls)
    /\ <>(sc_pc = "returned")

\* Every round showed a new link, stagnation never set in, and the function
\* returned because max_scrolls rounds were done.
C16_Witness ==
    /\ sc_pc = "returned"
    /\ sc_reason = "max_scrolls"
    /\ max_scrolls >= 2
    /\ sc_reveals = max_scrolls
    /\ Len(sc_counts) = max_scrolls
    /\ sc_counts[1] > 0
    /\ \A k \in 2..Len(sc_counts) : sc_counts[k] > sc_counts[k - 1]

\* C17 (per-group limit): for every limit from 0 on and whatever the pages
\* show, the collected sequence never holds more than limit links, and once
\* the links collected have reached the limit the function has returned: no
\* reveal action follows.
C17_PerGroupLimit ==
    /\ Len(sc_product_urls) <= limit
    /\ (sc_product_urls # <<>> /\ Len(sc_product_urls) >= limit) => sc_pc = "returned"

----------------------------------------------------------------------------
(* Properties of get_product_urls_from_brand *)

\* The attempts before the last one all came back without links.
EarlierAllEmpty ==
    \A k \in 1..(Len(gv_hist) - 1) : gv_hist[k] = "empty"

\* C18 (empty-first-pass retry): the visit is made at most 3 times, every
\* time starting with a page load; the call returns at the first attempt
\* that yields a link; it returns the empty list only after an attempt was
\* classified blocked or not-found, or after 3 attempts without links.
C18_EmptyPassRetry ==
    /\ gv_loads <= 3
    /\ gv_loads = Len(gv_hist) + (IF gv_pc = "collect" THEN 1 ELSE 0)
    /\ EarlierAllEmpty
    /\ gv_hist # <<>> /\ Last(gv_hist) = "links" => gv_pc \in {"returned", "checked"}
    /\ gv_pc \in {"returned", "checked"} =>
          IF gv_result # <<>>
          THEN Last(gv_hist) = "links"
          ELSE \/ Last(gv_hist) \in {"not_found", "blocked"}
               \/ Len(gv_hist) = 3 /\ Last(gv_hist) = "empty"

\* Two attempts found no link and the third one returned links.
C18_Witness ==
    /\ gv_pc = "returned"
    /\ gv_hist = <<"empty", "empty", "links">>
    /\ gv_loads = 3
    /\ gv_result # <<>>

\* C19 (blocked / not-found short-circuit): a page classified blocked or
\* not-found ends the call with the empty list, with no reveal round on that
\* page and no further load; the session is restarted and the group retried
\* only for a blocked group, never for a not-found one.
C19_ShortCircuit ==
    /\ gv_status \in {"not_found", "blocked"} =>
          /\ gv_result = <<>>
          /\ gv_scrolls = Len(gv_hist) - 1
          /\ gv_loads = Len(gv_hist)
    /\ gv_restart => gv_status # "not_found"

----------------------------------------------------------------------------
(* Properties of main(): the recovery from a blocked page *)

\* C20 (bounded blocked recovery): the session is restarted only when the
\* materialization of a group came back empty and the page shows the blocked
\* signature; the same group is then materialized again, once; if that is
\* empty too, the next step of the run appends the group to the log of
\* completed groups and goes on to the next group.  No group has more than
\* one restart in a run.
C20_BoundedRecovery ==
    [][/\ restarts' <= 1
       /\ ev'.restart =>
             /\ pc = "empty" /\ page_denied /\ product_urls = <<>>
             /\ ev.mat = brand_urls[bi] /\ ~ev.restart
             /\ ev'.mat = brand_urls[bi] /\ bi' = bi
             /\ restarts' = 1
       /\ (ev.restart /\ product_urls = <<>> /\ pc' # "idle") =>
             /\ brands_done_path' = Append(brands_done_path, BrandSlug(brand_urls[bi]))
             /\ bi' = bi + 1
             /\ pc' = "brand"]_vars

\* After a restart the retry came back empty too, and the step that followed
\* has appended the group to the log and moved on to the next group.
C20_Witness ==
    /\ pc = "brand"
    /\ restarts = 1
    /\ bi >= 2
    /\ ev.log = brand_urls[bi - 1]
    /\ ev.why = "empty"
    /\ brands_done_path # <<>>
    /\ brands_done_path[Len(brands_done_path)] = BrandSlug(ev.log)

----------------------------------------------------------------------------
(* Properties of main(): the log of completed groups *)

\* C21 (logged only when traversed): a group is appended to the log of
\* completed groups only after every link returned for it was processed or
\* skipped as seen, or after a short-circuit (no links, or the skip-ahead on
\* the sampled ids); a group whose traversal the global cap cut short is not
\* logged.
C21_LoggedOnlyWhenTraversed ==
    ev.log # NoUrl =>
       \/ ev.why = "done" /\ AllLinksAttempted
       \/ ev.why = "empty" /\ product_urls = <<>>
       \/ ev.why = "sample" /\ AllSampleSeen(product_urls, seen_product_ids)

----------------------------------------------------------------------------
(* Properties of main(): the global cap *)

\* C22 (global entity cap): once the ids in seen_product_ids have reached
\* the cap, the run materializes no further group, renders no further
\* product page and creates no further record; the seen set never holds
\* more ids than the larger of the cap and the number loaded at the start.
C22_GlobalCap ==
    /\ [](/\ \/ Cardinality(seen_product_ids) <= PRODUCT_LIMIT_TOTAL
             \/ Cardinality(seen_product_ids) <= loaded
          /\ Cardinality(sp_seen) <= PRODUCT_LIMIT_TOTAL
          /\ sp_pc = "brand" => Cardinality(sp_seen) < PRODUCT_LIMIT_TOTAL)
    /\ [][(Cardinality(seen_product_ids) >= PRODUCT_LIMIT_TOTAL) =>
              /\ ev'.mat = NoUrl
              /\ ev'.render = 0
              /\ seen_product_ids' \subseteq seen_product_ids
              /\ brand_products' \in {brand_products, <<>>}]_vars

\* The cap was reached in the middle of a group: the loop over its links
\* has stopped before a link whose product is not seen.
C22_Witness ==
    /\ pc = "flush_products"
    /\ capped
    /\ loaded < PRODUCT_LIMIT_TOTAL
    /\ Cardinality(seen_product_ids) = PRODUCT_LIMIT_TOTAL
    /\ \E i \in ui..Len(product_urls) : product_urls[i].pid \notin seen_product_ids

----------------------------------------------------------------------------
(* Properties of fetch_reviews: short, malformed and failed pages *)

\* C23 (short page means last page): a response that carries fewer records
\* than the page size is the last one of the call: no request follows it.
C23_ShortPageIsLast ==
    \A i \in 1..Len(rv_reqs) :
        (rv_reqs[i].ok /\ rv_reqs[i].n < page_size) => i = Len(rv_reqs)

\* A response whose payload is malformed.
Malformed(q) == q.ok /\ (~q.json \/ q.bad # 0)

\* C24 (malformed review payload): the request answered by a malformed payload
\* is the last one of the call, and what is collected, and returned, is what
\* the pages before it gave: no record of the offending page.
C24_MalformedPageSkipped ==
    \A i \in 1..Len(rv_reqs) :
        Malformed(rv_reqs[i]) =>
            /\ i = Len(rv_reqs)
            /\ Len(all_reviews) = rv_reqs[i].have
            /\ rv_pc = "returned" => Len(rv_result) = rv_reqs[i].have

\* C25 (non-success response): the request that came back with a status other
\* than 200, or failed, is the last one of the call, and what is collected,
\* and returned, is what the earlier pages gave, unchanged.
C25_NonSuccessEndsIngestion ==
    /\ \A i \in 1..Len(rv_reqs) :
          ~rv_reqs[i].ok =>
              /\ i = Len(rv_reqs)
              /\ Len(all_reviews) = rv_reqs[i].have
              /\ rv_pc \in {"break", "returned"}
              /\ rv_pc = "returned" => rv_result = all_reviews
    /\ \A i \in 1..Len(all_reviews) : \E j \in 1..Len(rv_reqs) :
          /\ rv_reqs[j].ok
          /\ all_reviews[i] \in rv_reqs[j].offset + 1 .. rv_reqs[j].offset + rv_reqs[j].n

\* A call returned what two pages gave after the third request failed.
C25_Witness ==
    /\ rv_pc = "returned"
    /\ Len(rv_reqs) = 3
    /\ ~rv_reqs[3].ok
    /\ rv_result # <<>>
    /\ Len(rv_result) = rv_reqs[3].have

----------------------------------------------------------------------------
(* Properties of the save after every brand *)

HeaderCount(rows) == Cardinality({i \in 1..Len(rows) : rows[i] = HeaderRow})

\* C26 (header rule): a save that appends records writes a header row exactly
\* when it finds the file empty (absent, or there with no row), so a file
\* that holds rows holds one header row, and holds it first.
C26_HeaderRule ==
    /\ fl_last.wrote => (fl_last.header <=> fl_last.empty)
    /\ fl_file.rows # <<>> =>
          /\ fl_file.rows[1] = HeaderRow
          /\ HeaderCount(fl_file.rows) = 1

----------------------------------------------------------------------------
(* Properties of the loops over the product links *)

\* C27 (only unprocessed entities are visited): no step loads the page of a
\* product, or requests the reviews of a product, whose id is in
\* seen_product_ids when the step is taken.
C27_OnlyUnprocessedVisited ==
    [][/\ ev'.render # 0 => ev'.render \notin seen_product_ids
       /\ ev'.req # 0 => ev'.req \notin seen_product_ids
       /\ sp_ev'.render # 0 => sp_ev'.render \notin sp_seen
       /\ sp_ev'.req # 0 => sp_ev'.req \notin sp_seen]_vars

\* The rows of the records are the last rows of the file.
EndsWith(file, ids) ==
    /\ Len(file.rows) >= Len(ids)
    /\ \A i \in 1..Len(ids) :
          file.rows[Len(file.rows) - Len(ids) + i] = DataRow(ids[i])

\* What the brand collected is in the two output files.
GroupFlushed ==
    /\ EndsWith(products_path, brand_products)
    /\ EndsWith(reviews_path, brand_reviews)
    /\ Range(brand_products) \subseteq PersistedPids

\* C28 (flush before log, scrape_ulta.py): the step that appends a brand to
\* the completed-brands log is taken with every product record and every
\* review record of the brand already in the output files, so a halt after it
\* finds the records of a logged brand persisted.
C28_FlushBeforeLog ==
    /\ [](pc = "mark_done" => GroupFlushed)
    /\ [][brands_done_path' # brands_done_path =>
             /\ GroupFlushed
             /\ products_path' = products_path
             /\ reviews_path' = reviews_path]_vars

\* A brand that gave products and reviews has just been logged.
C28_Witness ==
    /\ pc = "brand"
    /\ ev.log # NoUrl
    /\ ev.why = "done"
    /\ brand_products # <<>>
    /\ brand_reviews # <<>>
    /\ GroupFlushed

\* The review output holds a row of the product.
HasReviewRows(pid) == \E i \in 1..Len(reviews_path.rows) : reviews_path.rows[i] = DataRow(pid)

\* Every brand of the site is in the completed-brands log.
AllBrandsLogged == \A b \in BrandUrls : BrandSlug(b) \in Range(brands_done_path)

\* C29 (product and review saves are atomic with respect to a halt): when a
\* run has completed and every brand is logged, whatever halts came before,
\* every product of the product output whose reviews were fetched with at
\* least one record has review rows in the review output.
C29_AtomicFlush ==
    (pc = "done" /\ AllBrandsLogged) =>
        \A pid \in PersistedPids \cap got_reviews : HasReviewRows(pid)

----------------------------------------------------------------------------
(* Properties of the two output files together *)

\* Every data row of the review file carries the id of a data row of the
\* product file.
Refers(reviews, products) ==
    \A i \in 1..Len(reviews.rows) :
        reviews.rows[i].kind = "row" =>
            reviews.rows[i].id \in Range(read_ids(products.rows))

\* C30 (referential integrity of reviews): at every point where a run can be
\* halted, each row of the review output carries a product id that is in the
\* product output, in scrape_ulta.py and in scrape_sephora.py.
C30_ReferentialIntegrity ==
    /\ Refers(reviews_path, products_path)
    /\ Refers(sephora_reviews_csv, sephora_products_csv)

----------------------------------------------------------------------------
(* Properties of fetch_reviews: the offsets *)

\* C31 (disjoint, gap-free pagination): every request is made at the offset
\* that equals the number of records the earlier requests of the call gave,
\* so the records collected are the first records of the source, each once
\* and none passed over.
C31_GapFreePagination ==
    /\ \A i \in 1..Len(rv_reqs) : rv_reqs[i].offset = rv_reqs[i].have
    /\ NoDuplicates(all_reviews)
    /\ all_reviews = Records(0, Len(all_reviews))

=============================================================================
